---- MODULE Spec2Model ----
EXTENDS Integers, Sequences, FiniteSets, TLC

(***************************************************************************)
(* Text.  A Python str is modelled as a sequence of one-character strings. *)
(***************************************************************************)
Digit == {"0","1","2","3","4","5","6","7","8","9"}
LowerSeq == <<"a","b","c","d","e","f","g","h","i","j","k","l","m","n","o","p","q","r","s","t","u","v","w","x","y","z">>
UpperSeq == <<"A","B","C","D","E","F","G","H","I","J","K","L","M","N","O","P","Q","R","S","T","U","V","W","X","Y","Z">>
LowerSet == {LowerSeq[i] : i \in 1..26}
UpperSet == {UpperSeq[i] : i \in 1..26}
AlphaNum == LowerSet \cup UpperSet \cup Digit
Space == {" "}

UpperOf(c) == IF c \in LowerSet THEN UpperSeq[CHOOSE i \in 1..26 : LowerSeq[i] = c] ELSE c
LowerOf(c) == IF c \in UpperSet THEN LowerSeq[CHOOSE i \in 1..26 : UpperSeq[i] = c] ELSE c

(***************************************************************************)
(* Regular expressions (the subset of Python's re the program uses), as    *)
(* syntax trees, matched by backtracking in Python's priority order.       *)
(***************************************************************************)
Inf == 0 - 1
Chr(S) == [op |-> "chr", cs |-> S]
Cat(rs) == [op |-> "cat", rs |-> rs]
Alt(rs) == [op |-> "alt", rs |-> rs]
Rep(r, lo, hi) == [op |-> "rep", r |-> r, lo |-> lo, hi |-> hi]
Grp(n, r) == [op |-> "grp", n |-> n, r |-> r]
Bol == [op |-> "bol"]
Eol == [op |-> "eol"]
Ahead(r) == [op |-> "ahead", r |-> r]
NotAhead(r) == [op |-> "nahead", r |-> r]
NotBehind(r) == [op |-> "nbehind", r |-> r]
Plus(r) == Rep(r, 1, Inf)
Star(r) == Rep(r, 0, Inf)
Opt(r) == Rep(r, 0, 1)
Lit(c) == Chr({c})
CI(c) == Chr({LowerOf(c), UpperOf(c)})
CIWord(w) == Cat([i \in 1..Len(w) |-> CI(w[i])])
D == Chr(Digit)
WS == Chr(Space)

NoCaps == <<<<0, 0>>, <<0, 0>>>>

RECURSIVE Match(_, _, _, _), MatchCat(_, _, _, _, _), MatchAlt(_, _, _, _, _),
          MatchRep(_, _, _, _, _, _), Continue(_, _, _, _, _), Repeat(_, _, _, _, _, _)
\* every way r matches s from position i, best first: <<[pos, caps], ...>>
Match(r, s, i, caps) ==
    LET here == <<[pos |-> i, caps |-> caps]>> IN
    CASE r.op = "chr" -> IF i <= Len(s) /\ s[i] \in r.cs
                          THEN <<[pos |-> i + 1, caps |-> caps]>> ELSE <<>>
      [] r.op = "cat" -> MatchCat(r.rs, 1, s, i, caps)
      [] r.op = "alt" -> MatchAlt(r.rs, 1, s, i, caps)
      [] r.op = "rep" -> MatchRep(r.r, r.lo, r.hi, s, i, caps)
      [] r.op = "grp" -> LET inner == Match(r.r, s, i, caps) IN
                          [k \in 1..Len(inner) |->
                              [pos |-> inner[k].pos,
                               caps |-> [inner[k].caps EXCEPT ![r.n] = <<i, inner[k].pos>>]]]
      [] r.op = "bol" -> IF i = 1 THEN here ELSE <<>>
      [] r.op = "eol" -> IF i = Len(s) + 1 THEN here ELSE <<>>
      [] r.op = "ahead" -> IF Match(r.r, s, i, caps) # <<>> THEN here ELSE <<>>
      [] r.op = "nahead" -> IF Match(r.r, s, i, caps) = <<>> THEN here ELSE <<>>
      [] r.op = "nbehind" -> IF i > 1 /\ Match(r.r, s, i - 1, caps) # <<>> THEN <<>> ELSE here

\* for each way in firsts (from index j on), every way the rest rs[k..] goes on
Continue(firsts, j, rs, k, s) ==
    IF j > Len(firsts) THEN <<>>
    ELSE MatchCat(rs, k, s, firsts[j].pos, firsts[j].caps) \o Continue(firsts, j + 1, rs, k, s)

MatchCat(rs, k, s, i, caps) ==
    IF k > Len(rs) THEN <<[pos |-> i, caps |-> caps]>>
    ELSE Continue(Match(rs[k], s, i, caps), 1, rs, k + 1, s)

MatchAlt(rs, k, s, i, caps) ==
    IF k > Len(rs) THEN <<>>
    ELSE Match(rs[k], s, i, caps) \o MatchAlt(rs, k + 1, s, i, caps)

Repeat(firsts, j, r, lo, hi, s) ==
    IF j > Len(firsts) THEN <<>>
    ELSE MatchRep(r, IF lo > 0 THEN lo - 1 ELSE 0, IF hi = Inf THEN Inf ELSE hi - 1,
                  s, firsts[j].pos, firsts[j].caps)
         \o Repeat(firsts, j + 1, r, lo, hi, s)

\* greedy repetition: one more r first, stopping here last
MatchRep(r, lo, hi, s, i, caps) ==
    LET firsts == IF hi = 0 THEN <<>>
                  ELSE SelectSeq(Match(r, s, i, caps), LAMBDA m : m.pos > i)
    IN Repeat(firsts, 1, r, lo, hi, s)
       \o (IF lo = 0 THEN <<[pos |-> i, caps |-> caps]>> ELSE <<>>)

NoMatch == [start |-> 0, end |-> 0, caps |-> NoCaps]
\* re.match: the best match starting at position i, or NoMatch
MatchAt(r, s, i) ==
    LET ms == Match(r, s, i, NoCaps) IN
    IF ms = <<>> THEN NoMatch ELSE [start |-> i, end |-> ms[1].pos, caps |-> ms[1].caps]

RECURSIVE SearchFrom(_, _, _)
SearchFrom(r, s, i) ==
    IF i > Len(s) + 1 THEN NoMatch
    ELSE LET m == MatchAt(r, s, i) IN IF m.start # 0 THEN m ELSE SearchFrom(r, s, i + 1)
\* re.search: the leftmost match
Search(r, s) == SearchFrom(r, s, 1)
\* m.group(n) for n >= 1, m.group(0)
Group(s, m, n) == SubSeq(s, m.caps[n][1], m.caps[n][2] - 1)
Group0(s, m) == SubSeq(s, m.start, m.end - 1)


(***************************************************************************)
(* EPISODE_PATTERNS: the rule table, in table order.  fmt names the        *)
(* formatter lambda: "SE" = (int(g1), int(g2)); "E" = (1, int(g1));        *)
(* "dash" / "under" = (1, int(g0.split(c)[1].strip())).                    *)
(***************************************************************************)
Sep == {".", "_", " ", "-"}
SeasonW == CIWord(<<"s","e","a","s","o","n">>)
EpisodeW == CIWord(<<"e","p","i","s","o","d","e">>)
EpW == Cat(<<CI("e"), CI("p"), Opt(CIWord(<<"i","s","o","d","e">>))>>)
OrdinalW == Alt(<<CIWord(<<"s","t">>), CIWord(<<"n","d">>), CIWord(<<"r","d">>), CIWord(<<"t","h">>)>>)
D12 == Rep(D, 1, 2)
Dashed == Cat(<<Star(WS), Lit("-"), Star(WS)>>)
Edge == Alt(<<Bol, Chr(Sep)>>)
EdgeAhead == Ahead(Alt(<<Chr(Sep), Eol>>))
NotAlnumAhead == NotAhead(Chr(AlphaNum))
\* BareNumber with a fault: any number of up to four digits
BareNumberAnyFour == Rep(D, 1, 4)
BareNumber == Alt(<<Cat(<<Lit("1"), Chr({"0","1","2","3","4","5","6","7","8"}), D, D>>), Rep(D, 1, 3)>>)
G1(r) == Grp(1, r)
G2(r) == Grp(2, r)

P_SxxExx == [name |-> "S##E##", fmt |-> "SE",
    re |-> Cat(<<Chr({"S","s"}), G1(Plus(D)), Opt(WS), Chr({"E","e"}), G2(Plus(D))>>)]
P_Sxx_Episode_xx == [name |-> "S## Episode ##", fmt |-> "SE",
    re |-> Cat(<<CI("s"), G1(Plus(D)), Plus(WS), EpisodeW, Plus(WS), G2(Plus(D))>>)]
P_xxXxx == [name |-> "##x##", fmt |-> "SE",
    re |-> Cat(<<Edge, G1(D12), Chr({"x","X"}), G2(Plus(D)), EdgeAhead>>)]
P_Sxx_dash_xx == [name |-> "S## - ##", fmt |-> "SE",
    re |-> Cat(<<CI("s"), G1(D12), Dashed, G2(Plus(D))>>)]
P_Sxx_dash_Exx == [name |-> "S## - E##", fmt |-> "SE",
    re |-> Cat(<<CI("s"), G1(D12), Dashed, CI("e"), G2(Plus(D))>>)]
P_Sxx_dot_Exx == [name |-> "S##.E##", fmt |-> "SE",
    re |-> Cat(<<CI("s"), G1(D12), Lit("."), CI("e"), G2(Plus(D))>>)]
P_Sxx_under_Exx == [name |-> "S##_E##", fmt |-> "SE",
    re |-> Cat(<<CI("s"), G1(D12), Lit("_"), CI("e"), G2(Plus(D))>>)]
P_Sxx_dash_EPxx == [name |-> "S## - EP##", fmt |-> "SE",
    re |-> Cat(<<CI("s"), G1(D12), Dashed, CI("e"), CI("p"), G2(Plus(D))>>)]
P_Sxx_EPxx == [name |-> "S## EP##", fmt |-> "SE",
    re |-> Cat(<<CI("s"), G1(D12), Plus(WS), CI("e"), CI("p"), Star(WS), G2(Plus(D))>>)]
P_Sxx_dot_EPxx == [name |-> "S##.EP##", fmt |-> "SE",
    re |-> Cat(<<CI("s"), G1(D12), Lit("."), CI("e"), CI("p"), G2(Plus(D))>>)]
P_1st_Season_dash_xx == [name |-> "1st Season - ##", fmt |-> "SE",
    re |-> Cat(<<G1(D12), OrdinalW, Plus(WS), SeasonW, Dashed, G2(Plus(D))>>)]
P_1st_Season_Episode_xx == [name |-> "1st Season Episode ##", fmt |-> "SE",
    re |-> Cat(<<G1(D12), OrdinalW, Plus(WS), SeasonW, Plus(WS), EpisodeW, Plus(WS), G2(Plus(D))>>)]
P_1st_Season_Exx == [name |-> "1st Season E##", fmt |-> "SE",
    re |-> Cat(<<G1(D12), OrdinalW, Plus(WS), SeasonW, Plus(WS), CI("e"), Star(WS), G2(Plus(D))>>)]
P_1st_Season_EPxx == [name |-> "1st Season EP##", fmt |-> "SE",
    re |-> Cat(<<G1(D12), OrdinalW, Plus(WS), SeasonW, Plus(WS), CI("e"), CI("p"), Star(WS), G2(Plus(D))>>)]
P_Season_xx_dash_xx == [name |-> "Season ## - ##", fmt |-> "SE",
    re |-> Cat(<<SeasonW, Plus(WS), G1(D12), Dashed, G2(Plus(D))>>)]
P_Seasonxx_dash_xx == [name |-> "Season## - ##", fmt |-> "SE",
    re |-> Cat(<<SeasonW, G1(D12), Dashed, G2(Plus(D))>>)]
P_Season_dot_Episode_dot == [name |-> "Season.#.Episode.#", fmt |-> "SE",
    re |-> Cat(<<SeasonW, Lit("."), G1(Plus(D)), Star(Chr(Sep)), EpisodeW, Lit("."), G2(Plus(D))>>)]
P_S_Ep_dot == [name |-> "S#.Ep.#", fmt |-> "SE",
    re |-> Cat(<<CI("s"), G1(Plus(D)), Star(Chr(Sep)), EpW, Lit("."), G2(Plus(D))>>)]
P_SxEpx == [name |-> "S#Ep#", fmt |-> "SE",
    re |-> Cat(<<CI("s"), G1(Plus(D)), EpW, G2(Plus(D))>>)]
P_Season_x_Episode_x == [name |-> "Season # Episode #", fmt |-> "SE",
    re |-> Cat(<<SeasonW, Plus(WS), G1(Plus(D)), Plus(WS), EpisodeW, Plus(WS), G2(Plus(D))>>)]
P_Seasonxx_Episodexx == [name |-> "Season##_Episode##", fmt |-> "SE",
    re |-> Cat(<<SeasonW, Star(WS), G1(Plus(D)), Plus(Chr({" ", "_"})), EpisodeW, Star(WS), G2(Plus(D))>>)]
P_SeasonxEpisodex == [name |-> "Season#Episode#", fmt |-> "SE",
    re |-> Cat(<<SeasonW, G1(Plus(D)), EpisodeW, G2(Plus(D))>>)]
P_Seasonx_Episodex == [name |-> "Season# Episode#", fmt |-> "SE",
    re |-> Cat(<<SeasonW, G1(Plus(D)), Plus(WS), EpisodeW, G2(Plus(D))>>)]
P_Seasonx_Epx == [name |-> "Season# Ep#", fmt |-> "SE",
    re |-> Cat(<<SeasonW, G1(Plus(D)), Plus(WS), EpW, G2(Plus(D))>>)]
P_SeasonxEpx == [name |-> "Season#Ep#", fmt |-> "SE",
    re |-> Cat(<<SeasonW, G1(Plus(D)), EpW, G2(Plus(D))>>)]
P_seasonxx_exx == [name |-> "season## e##", fmt |-> "SE",
    re |-> Cat(<<SeasonW, G1(Plus(D)), Plus(WS), CI("e"), G2(Plus(D))>>)]
P_Season_x_dot_Ep_x == [name |-> "Season #.Ep #", fmt |-> "SE",
    re |-> Cat(<<SeasonW, Plus(WS), G1(Plus(D)), Star(Chr(Sep)), EpW, Star(WS), G2(Plus(D))>>)]
P_Seasonx_dot_Epx == [name |-> "Season#.Ep#", fmt |-> "SE",
    re |-> Cat(<<SeasonW, G1(Plus(D)), Star(Chr(Sep)), EpW, G2(Plus(D))>>)]
P_Season_x_Ep_x == [name |-> "Season # Ep #", fmt |-> "SE",
    re |-> Cat(<<SeasonW, Plus(WS), G1(Plus(D)), Plus(WS), EpW, Star(WS), G2(Plus(D))>>)]
P_Epxx == [name |-> "Ep##", fmt |-> "E",
    re |-> Cat(<<Edge, EpW, Star(WS), G1(Plus(D)), EdgeAhead>>)]
P_Exx == [name |-> "E##", fmt |-> "E",
    re |-> Cat(<<Edge, Chr({"E","e"}), G1(Plus(D)), EdgeAhead>>)]
P_xx_dash_xx == [name |-> "## - ##", fmt |-> "SE",
    re |-> Cat(<<NotBehind(D), G1(D12), Dashed, G2(D12), NotAlnumAhead>>)]
P_dash_xx == [name |-> "- ##", fmt |-> "dash",
    re |-> Cat(<<Lit("-"), Star(WS), BareNumber, NotAlnumAhead>>)]
P_bracket_xx == [name |-> "[##]", fmt |-> "E",
    re |-> Cat(<<Lit("["), G1(D12), Lit("]"), NotAlnumAhead>>)]
P_under_xx == [name |-> "_##", fmt |-> "under",
    re |-> Cat(<<Lit("_"), BareNumber, NotAlnumAhead>>)]

EPISODE_PATTERNS == <<
    P_SxxExx, P_Sxx_Episode_xx, P_xxXxx, P_Sxx_dash_xx, P_Sxx_dash_Exx, P_Sxx_dot_Exx,
    P_Sxx_under_Exx, P_Sxx_dash_EPxx, P_Sxx_EPxx, P_Sxx_dot_EPxx, P_1st_Season_dash_xx,
    P_1st_Season_Episode_xx, P_1st_Season_Exx, P_1st_Season_EPxx, P_Season_xx_dash_xx,
    P_Seasonxx_dash_xx, P_Season_dot_Episode_dot, P_S_Ep_dot, P_SxEpx, P_Season_x_Episode_x,
    P_Seasonxx_Episodexx, P_SeasonxEpisodex, P_Seasonx_Episodex, P_Seasonx_Epx, P_SeasonxEpx,
    P_seasonxx_exx, P_Season_x_dot_Ep_x, P_Seasonx_dot_Epx, P_Season_x_Ep_x, P_Epxx, P_Exx,
    P_xx_dash_xx, P_dash_xx, P_bracket_xx, P_under_xx >>


(***************************************************************************)
(* int(str), str(int)                                                      *)
(***************************************************************************)
\* CPython refuses to convert a numeral of more than sys.int_max_str_digits
\* digits (4300) with ValueError; the limit is scaled down here.
IntMaxStrDigits == 4
DigitSeq == <<"0","1","2","3","4","5","6","7","8","9">>
DigitVal(c) == (CHOOSE n \in 1..10 : DigitSeq[n] = c) - 1
RECURSIVE DigitsValue(_)
DigitsValue(ds) ==
    IF ds = <<>> THEN 0
    ELSE 10 * DigitsValue(SubSeq(ds, 1, Len(ds) - 1)) + DigitVal(ds[Len(ds)])
IntRaises(ds) == ds = <<>> \/ (\E i \in 1..Len(ds) : ds[i] \notin Digit) \/ Len(ds) > IntMaxStrDigits
RECURSIVE IntStr(_)
IntStr(n) == IF n < 10 THEN <<DigitSeq[n + 1]>> ELSE IntStr(n \div 10) \o <<DigitSeq[(n % 10) + 1]>>

RECURSIVE Split(_, _)
\* s.split(c)
Split(s, c) ==
    IF \A i \in 1..Len(s) : s[i] # c THEN <<s>>
    ELSE LET i == CHOOSE j \in 1..Len(s) : s[j] = c /\ \A h \in 1..(j - 1) : s[h] # c
         IN <<SubSeq(s, 1, i - 1)>> \o Split(SubSeq(s, i + 1, Len(s)), c)
RECURSIVE LStrip(_), RStrip(_)
LStrip(s) == IF s # <<>> /\ s[1] \in Space THEN LStrip(Tail(s)) ELSE s
RStrip(s) == IF s # <<>> /\ s[Len(s)] \in Space THEN RStrip(SubSeq(s, 1, Len(s) - 1)) ELSE s
Strip(s) == RStrip(LStrip(s))

\* the outcome of a formatter lambda: the tuple, or the exception it raises
Returned(v) == [exc |-> "", value |-> v, called |-> TRUE]
Raised(e) == [exc |-> e, value |-> <<>>, called |-> TRUE]
IntPair(a, b) == IF IntRaises(a) \/ IntRaises(b) THEN Raised("ValueError")
                 ELSE Returned(<<DigitsValue(a), DigitsValue(b)>>)
DefaultSeason(b) == IF IntRaises(b) THEN Raised("ValueError") ELSE Returned(<<1, DigitsValue(b)>>)
SplitSecond(g0, c) == LET parts == Split(g0, c) IN
    IF Len(parts) < 2 THEN Raised("IndexError") ELSE DefaultSeason(Strip(parts[2]))
formatter(fmt, s, m) ==
    CASE fmt = "SE" -> IntPair(Group(s, m, 1), Group(s, m, 2))
      [] fmt = "E" -> DefaultSeason(Group(s, m, 1))
      [] fmt = "dash" -> SplitSecond(Group0(s, m), "-")
      [] fmt = "under" -> SplitSecond(Group0(s, m), "_")

NoInfo == <<>>
None == <<"None">>
Truthy(v) == v # None /\ v # <<>>

\* ExtractTryRule with a fault: no try/except around the formatter
ExtractTryRuleNoCatch(filename, k, rest) ==
    LET p == EPISODE_PATTERNS[k]
        m == Search(p.re, filename)
    IN IF m.start = 0 THEN rest ELSE formatter(p.fmt, filename, m)
ExtractTryRule(filename, k, rest) ==
    LET p == EPISODE_PATTERNS[k]
        m == Search(p.re, filename)
    IN IF m.start = 0 THEN rest
       ELSE LET r == formatter(p.fmt, filename, m)
            IN IF r.exc \in {"ValueError", "IndexError"} THEN rest
               ELSE IF r.exc # "" THEN r
               ELSE IF r.value # <<>> THEN r ELSE rest
RECURSIVE ExtractFromRule(_, _)
ExtractFromRule(filename, k) ==
    IF k > Len(EPISODE_PATTERNS) THEN Returned(NoInfo)
    ELSE ExtractTryRule(filename, k, ExtractFromRule(filename, k + 1))
\* ExtractOutcome with a fault: the rule whose match starts leftmost wins
ExtractOutcomeLeftmost(filename) ==
    LET hit(k) == Search(EPISODE_PATTERNS[k].re, filename)
        got(k) == formatter(EPISODE_PATTERNS[k].fmt, filename, hit(k))
        ok == {k \in 1..Len(EPISODE_PATTERNS) : hit(k).start # 0 /\ got(k).exc = ""}
    IN IF ok = {} THEN Returned(NoInfo)
       ELSE got(CHOOSE k \in ok : \A j \in ok :
                    hit(k).start < hit(j).start \/ (hit(k).start = hit(j).start /\ k <= j))
ExtractOutcome(filename) == ExtractFromRule(filename, 1)
extract_episode_info(filename) == ExtractOutcome(filename).value

\* normalize_episode_number with a fault: no zero is put before a single digit
normalize_episode_number_unpadded(season, episode) ==
    <<"S">> \o IntStr(season) \o <<"E">> \o IntStr(episode)

\* normalize_episode_number with a fault: each number is cut to its last two digits
normalize_episode_number_two_digits(season, episode) ==
    LET Two(n) == <<DigitSeq[((n \div 10) % 10) + 1], DigitSeq[(n % 10) + 1]>>
    IN <<"S">> \o Two(season) \o <<"E">> \o Two(episode)

normalize_episode_number(season, episode) ==
    LET season_str == IF season < 10 THEN <<"S", "0">> \o IntStr(season) ELSE <<"S">> \o IntStr(season)
        episode_str == IF episode < 10 THEN <<"E", "0">> \o IntStr(episode) ELSE <<"E">> \o IntStr(episode)
    IN season_str \o episode_str


\* re.match(r'S(\d+)E(\d+)', episode_string, re.IGNORECASE)
EpisodeStringRe == Cat(<<CI("s"), G1(Plus(D)), CI("e"), G2(Plus(D))>>)
NotParsed == <<<<>>, <<>>>>
extract_season_episode_numbers(episode_string) ==
    IF ~Truthy(episode_string) THEN NotParsed
    ELSE LET m == MatchAt(EpisodeStringRe, episode_string, 1)
         IN IF m.start # 0 THEN <<Group(episode_string, m, 1), Group(episode_string, m, 2)>>
            ELSE NotParsed

\* re.search(r'final[.\s_-]+season', filename, re.IGNORECASE)
FinalSeasonRe == Cat(<<CIWord(<<"f","i","n","a","l">>), Plus(Chr(Sep)), SeasonW>>)
detect_final_season_keyword(filename) == Search(FinalSeasonRe, filename).start # 0

\* MatchDecide with a fault: only the subtitle side is ever inferred (no elif branch)
MatchDecideSubtitleOnly(sub_info0, vid_info0, sub_has_final, vid_has_final) ==
    IF sub_info0 = NoInfo \/ vid_info0 = NoInfo
    THEN [sub_info |-> sub_info0, vid_info |-> vid_info0, ret |-> <<None, None>>]
    ELSE LET case1 == sub_has_final /\ sub_info0[1] = 1 /\ vid_info0[1] # 1
             sub_info == IF case1 THEN <<vid_info0[1], sub_info0[2]>> ELSE sub_info0
             sub_normalized == normalize_episode_number(sub_info[1], sub_info[2])
             vid_normalized == normalize_episode_number(vid_info0[1], vid_info0[2])
         IN [sub_info |-> sub_info, vid_info |-> vid_info0,
             ret |-> IF sub_normalized = vid_normalized
                     THEN <<sub_normalized, vid_normalized>> ELSE <<None, None>>]

\* MatchDecide with a fault: the phrase alone triggers the rewrite, on both sides
MatchDecideBothSides(sub_info0, vid_info0, sub_has_final, vid_has_final) ==
    IF sub_info0 = NoInfo \/ vid_info0 = NoInfo
    THEN [sub_info |-> sub_info0, vid_info |-> vid_info0, ret |-> <<None, None>>]
    ELSE LET sub_info == IF sub_has_final THEN <<vid_info0[1], sub_info0[2]>> ELSE sub_info0
             vid_info == IF vid_has_final THEN <<sub_info0[1], vid_info0[2]>> ELSE vid_info0
             sub_normalized == normalize_episode_number(sub_info[1], sub_info[2])
             vid_normalized == normalize_episode_number(vid_info[1], vid_info[2])
         IN [sub_info |-> sub_info, vid_info |-> vid_info,
             ret |-> IF sub_normalized = vid_normalized
                     THEN <<sub_normalized, vid_normalized>> ELSE <<None, None>>]

\* MatchDecide with a fault: the final comparison looks at the seasons only
MatchDecideSeasonOnly(sub_info0, vid_info0, sub_has_final, vid_has_final) ==
    IF sub_info0 = NoInfo \/ vid_info0 = NoInfo
    THEN [sub_info |-> sub_info0, vid_info |-> vid_info0, ret |-> <<None, None>>]
    ELSE LET case1 == sub_has_final /\ sub_info0[1] = 1 /\ vid_info0[1] # 1
             case2 == ~case1 /\ vid_has_final /\ vid_info0[1] = 1 /\ sub_info0[1] # 1
             sub_info == IF case1 THEN <<vid_info0[1], sub_info0[2]>> ELSE sub_info0
             vid_info == IF case2 THEN <<sub_info[1], vid_info0[2]>> ELSE vid_info0
             sub_normalized == normalize_episode_number(sub_info[1], sub_info[2])
             vid_normalized == normalize_episode_number(vid_info[1], vid_info[2])
         IN [sub_info |-> sub_info, vid_info |-> vid_info,
             ret |-> IF sub_info[1] = vid_info[1]
                     THEN <<sub_normalized, vid_normalized>> ELSE <<None, None>>]

\* match_subtitle_to_video after its two extractions and its two keyword
\* tests: the locals sub_info and vid_info at the return, and the returned pair
MatchDecide(sub_info0, vid_info0, sub_has_final, vid_has_final) ==
    IF sub_info0 = NoInfo \/ vid_info0 = NoInfo
    THEN [sub_info |-> sub_info0, vid_info |-> vid_info0, ret |-> <<None, None>>]
    ELSE LET case1 == sub_has_final /\ sub_info0[1] = 1 /\ vid_info0[1] # 1
             case2 == ~case1 /\ vid_has_final /\ vid_info0[1] = 1 /\ sub_info0[1] # 1
             sub_info == IF case1 THEN <<vid_info0[1], sub_info0[2]>> ELSE sub_info0
             vid_info == IF case2 THEN <<sub_info[1], vid_info0[2]>> ELSE vid_info0
             sub_normalized == normalize_episode_number(sub_info[1], sub_info[2])
             vid_normalized == normalize_episode_number(vid_info[1], vid_info[2])
         IN [sub_info |-> sub_info, vid_info |-> vid_info,
             ret |-> IF sub_normalized = vid_normalized
                     THEN <<sub_normalized, vid_normalized>> ELSE <<None, None>>]

\* the whole call: extraction of both names, keyword tests, decision
MatchRun(subtitle_file, video_file) ==
    MatchDecide(extract_episode_info(subtitle_file), extract_episode_info(video_file),
                detect_final_season_keyword(subtitle_file),
                detect_final_season_keyword(video_file))
match_subtitle_to_video(subtitle_file, video_file) == MatchRun(subtitle_file, video_file).ret

(***************************************************************************)
(* Inputs of the matcher: filenames built from one or two tokens, and the  *)
(* precedence example of the test suite.                                   *)
(***************************************************************************)
T_S01E05 == <<"S","0","1","E","0","5">>
T_S1E5 == <<"S","1","E","5">>
T_SeasonEpisode == <<"S","e","a","s","o","n"," ","1"," ","E","p","i","s","o","d","e"," ","5">>
T_2x05 == <<"2","x","0","5">>
T_dash07 == <<" ","-"," ","0","7">>
T_br07 == <<"[","0","7","]">>
T_10bit == <<"[","1","0","b","i","t","]">>
T_us09 == <<"_","0","9">>
T_year == <<"-","1","9","9","9">>
T_E03 == <<"E","0","3">>
T_Final == <<"F","I","N","A","L"," ","S","E","A","S","O","N">>
T_S08E01 == <<"S","0","8","E","0","1">>
T_Show == <<"S","h","o","w">>
T_dot == <<".">>
T_1080p == <<"1","0","8","0","p">>
T_space == <<" ">>
T_3rd == <<"3","r","d"," ","S","e","a","s","o","n"," ","-"," ","0","4">>
T_Ep12 == <<"E","p"," ","1","2">>
T_us1899 == <<"_","1","8","9","9">>
T_Sdash == <<"S","0","2"," ","-"," ","0","3">>
T_nn == <<"1","2"," ","-"," ","3","4">>
T_SdotE == <<"S","e","a","s","o","n",".","2",".","E","p","i","s","o","d","e",".","3">>
T_s3ep4 == <<"s","3","e","p","4">>
T_us2023 == <<"_","2","0","2","3">>
\* a numeral one digit longer than int() converts
TooManyDigits == [i \in 1..(IntMaxStrDigits + 1) |-> "9"]
T_SbigE1 == <<"S">> \o TooManyDigits \o <<"E", "1">>
T_S01Ebig == <<"S", "0", "1", "E">> \o TooManyDigits
PriorityExample == <<"S","h","o","w",".","S","0","1","E","0","5",".","S","e","a","s","o","n"," ","1"," ","E","p","i","s","o","d","e"," ","5",".","m","k","v">>
Tokens == {T_S01E05, T_S1E5, T_SeasonEpisode, T_2x05, T_dash07, T_br07, T_10bit, T_us09, T_year, T_E03, T_Final, T_S08E01, T_Show, T_dot, T_1080p, T_space, T_3rd, T_Ep12, T_us1899, T_Sdash, T_nn, T_SdotE, T_s3ep4, T_us2023, T_SbigE1, T_S01Ebig}
Filenames == Tokens \cup {a \o b : a \in Tokens, b \in Tokens} \cup {PriorityExample}

(***************************************************************************)
(* get_episode_number_cached: functools.lru_cache around the matcher and   *)
(* the normalizer.  A cache is its entries, least recently used first,     *)
(* and its two counters.                                                   *)
(***************************************************************************)
maxsize == 2
EmptyCache == [entries |-> <<>>, hits |-> 0, misses |-> 0]
CacheKeys(c) == {c.entries[i].key : i \in DOMAIN c.entries}
\* the position of key among the entries, 0 when it is not stored
CacheFind(c, key) ==
    IF key \in CacheKeys(c) THEN CHOOSE i \in DOMAIN c.entries : c.entries[i].key = key ELSE 0
CacheStored(c, key) == c.entries[CacheFind(c, key)].value
RemoveAt(seq, i) == SubSeq(seq, 1, i - 1) \o SubSeq(seq, i + 1, Len(seq))

\* the decorated function's body
Wrapped(filename) ==
    LET episode_info == extract_episode_info(filename)
    IN IF Truthy(episode_info)
       THEN normalize_episode_number(episode_info[1], episode_info[2])
       ELSE None

\* a hit: the entry becomes the most recently used one, the body does not run
CacheHit(c, i) ==
    [cache |-> [c EXCEPT !.entries = Append(RemoveAt(c.entries, i), c.entries[i]),
                         !.hits = c.hits + 1],
     value |-> c.entries[i].value, ran |-> FALSE]

\* CacheMiss with a fault: a None result is returned but not stored
CacheMissNoneNotStored(c, key, value) ==
    [cache |-> [c EXCEPT !.entries =
                    IF value = None THEN c.entries
                    ELSE Append(IF Len(c.entries) >= maxsize THEN Tail(c.entries)
                                ELSE c.entries, [key |-> key, value |-> value]),
                         !.misses = c.misses + 1],
     value |-> value, ran |-> TRUE]

\* CacheMiss with a fault: when the cache is full the new result overwrites the
\* least recently used entry's value and leaves that entry's key
CacheMissKeepsEvictedKey(c, key, value) ==
    [cache |-> [c EXCEPT !.entries =
                    IF Len(c.entries) >= maxsize
                    THEN Append(Tail(c.entries), [key |-> Head(c.entries).key, value |-> value])
                    ELSE Append(c.entries, [key |-> key, value |-> value]),
                         !.misses = c.misses + 1],
     value |-> value, ran |-> TRUE]

\* a miss: the body has run and returned value; it is stored as the most
\* recently used entry, in place of the least recently used one when full
CacheMiss(c, key, value) ==
    [cache |-> [c EXCEPT !.entries =
                    Append(IF Len(c.entries) >= maxsize THEN Tail(c.entries)
                           ELSE c.entries, [key |-> key, value |-> value]),
                         !.misses = c.misses + 1],
     value |-> value, ran |-> TRUE]

get_episode_number_cached(c, filename) ==
    IF CacheFind(c, filename) # 0
    THEN CacheHit(c, CacheFind(c, filename))
    ELSE CacheMiss(c, filename, Wrapped(filename))

\* cache_clear with a fault: the entries go, the counters stay
cache_clear_entries_only(c) == [c EXCEPT !.entries = <<>>]

\* get_episode_number_cached.cache_clear()
cache_clear(c) == EmptyCache
clear_episode_cache(c) == cache_clear(c)
\* get_episode_number_cached.cache_info()
get_cache_info(c) ==
    [hits |-> c.hits, misses |-> c.misses, maxsize |-> maxsize, currsize |-> Len(c.entries)]

(***************************************************************************)
(* File names: str and path operations of the renamer and the embedder     *)
(***************************************************************************)
\* the characters of the model's file names, in code point order
CodePoints ==
    <<" ", "\"", "*", "-", ".", "/", "0", "1", "2", "3", "4", "5", "6", "7", "8", "9", ":", "<", ">", "?">>
    \o UpperSeq \o <<"[", "\\", "]", "_">> \o LowerSeq \o <<"|">>
Ord(c) == CHOOSE i \in DOMAIN CodePoints : CodePoints[i] = c
RECURSIVE StrLess(_, _)
\* a < b for two str
StrLess(a, b) ==
    IF b = <<>> THEN FALSE
    ELSE IF a = <<>> THEN TRUE
    ELSE IF Head(a) = Head(b) THEN StrLess(Tail(a), Tail(b))
    ELSE Ord(Head(a)) < Ord(Head(b))
\* sorted(names) for a list of str
sorted(names) == SortSeq(names, StrLess)
Lower(s) == [i \in DOMAIN s |-> LowerOf(s[i])]
EndsWith(s, suffix) ==
    Len(suffix) <= Len(s) /\ SubSeq(s, Len(s) - Len(suffix) + 1, Len(s)) = suffix
\* str.rfind('.'), 1-based, 0 when there is no dot
LastDot(s) == IF \E i \in DOMAIN s : s[i] = "." THEN CHOOSE i \in DOMAIN s : s[i] = "." /\ \A j \in DOMAIN s : s[j] = "." => j <= i ELSE 0
\* os.path.splitext: the extension starts at the last dot, unless only dots precede it
splitext(p) ==
    LET dot == LastDot(p) IN
    IF dot > 0 /\ \E i \in 1..(dot - 1) : p[i] # "."
    THEN <<SubSeq(p, 1, dot - 1), SubSeq(p, dot, Len(p))>>
    ELSE <<p, <<>>>>
\* pathlib's PurePath.suffix and .stem: the last dot, neither first nor last
PathSuffix(name) ==
    LET dot == LastDot(name) IN
    IF 1 < dot /\ dot < Len(name) THEN SubSeq(name, dot, Len(name)) ELSE <<>>
PathStem(name) ==
    LET dot == LastDot(name) IN
    IF 1 < dot /\ dot < Len(name) THEN SubSeq(name, 1, dot - 1) ELSE name
\* str.lstrip('.')
RECURSIVE LStripDots(_)
LStripDots(s) == IF s # <<>> /\ Head(s) = "." THEN LStripDots(Tail(s)) ELSE s

RECURSIVE ReSubFrom(_, _, _, _)
\* pattern.sub(repl, s) from position i on, for a pattern that matches no empty string
ReSubFrom(r, repl, s, i) ==
    IF i > Len(s) THEN <<>>
    ELSE LET m == MatchAt(r, s, i) IN
         IF m.start # 0 /\ m.end > i THEN repl \o ReSubFrom(r, repl, s, m.end)
         ELSE <<s[i]>> \o ReSubFrom(r, repl, s, i + 1)
ReSub(r, repl, s) == ReSubFrom(r, repl, s, 1)

\* [<>:"/\|?*]: the backslash escapes the bar and is not in the class
PROBLEMATIC_CHARS == Chr({"<", ">", ":", "\"", "/", "|", "?", "*"})
SUBTITLE_SUFFIX_PATTERN ==
    Cat(<<Star(Chr(Sep)), CIWord(<<"s","u","b">>),
          Opt(Grp(1, CIWord(<<"t","i","t","l","e">>))), Star(Chr(Sep))>>)

video_extensions == <<<<"m","k","v">>, <<"m","p","4">>>>
subtitle_extensions == <<<<"s","r","t">>, <<"a","s","s">>>>
SeqRange(seq) == {seq[i] : i \in DOMAIN seq}

(***************************************************************************)
(* The renamer (subfast_rename.py) and the embedder (subfast_embed.py).    *)
(* A directory is a function from the names in it to file contents; a      *)
(* Python dict is a function; a lookup through the cache carries the cache.*)
(***************************************************************************)
Exists(d, name) == name \in DOMAIN d
Put(dict, k, v) == [x \in DOMAIN dict \cup {k} |-> IF x = k THEN v ELSE dict[x]]
Without(d, name) == [x \in DOMAIN d \ {name} |-> d[x]]
EmptyDict == <<>>

build_subtitle_filename(base_name, subtitle_ext, language_suffix) ==
    IF language_suffix # <<>>
    THEN base_name \o <<".">> \o language_suffix \o subtitle_ext
    ELSE base_name \o subtitle_ext

\* the loop body with a fault: the counter is left out of the name
NumberedNameNoCounter(original_specific_name, counter) == original_specific_name
\* the body of the while loop: f"{name_part}_{counter}{ext_part}"
NumberedName(original_specific_name, counter) ==
    splitext(original_specific_name)[1] \o <<"_">> \o IntStr(counter)
        \o splitext(original_specific_name)[2]
RECURSIVE CounterLoop(_, _, _, _)
\* the while loop of generate_unique_name
CounterLoop(original_specific_name, specific_new_name, counter, d) ==
    IF Exists(d, specific_new_name)
    THEN CounterLoop(original_specific_name,
                     NumberedName(original_specific_name, counter), counter + 1, d)
    ELSE specific_new_name
\* counter = 1, original_specific_name = specific_new_name, and the loop
NumberedFrom(specific_new_name, d) == CounterLoop(specific_new_name, specific_new_name, 1, d)
\* the name tried after the standard name is found taken
SpecificName(base_name, subtitle_ext, subtitle, language_suffix) ==
    LET original_base == splitext(subtitle)[1]
        cleaned == ReSub(SUBTITLE_SUFFIX_PATTERN, <<>>, original_base)
        original_cleaned == IF cleaned = <<>> THEN original_base ELSE cleaned
        suffix_part == IF language_suffix # <<>> THEN language_suffix \o <<"_">> ELSE <<>>
    IN ReSub(PROBLEMATIC_CHARS, <<"_">>,
             base_name \o <<".">> \o suffix_part \o original_cleaned \o subtitle_ext)

\* generate_unique_name with a fault: the standard name is returned unchecked
generate_unique_name_unchecked(base_name, subtitle_ext, subtitle, d, language_suffix) ==
    build_subtitle_filename(base_name, subtitle_ext, language_suffix)

\* the new_name that generate_unique_name returns in directory d
generate_unique_name(base_name, subtitle_ext, subtitle, d, language_suffix) ==
    LET new_name == build_subtitle_filename(base_name, subtitle_ext, language_suffix) IN
    IF ~Exists(d, new_name) THEN new_name
    ELSE NumberedFrom(SpecificName(base_name, subtitle_ext, subtitle, language_suffix), d)

\* int(season), int(episode) of a canonical identifier's two numerals
EpisodeKey(numerals) == <<DigitsValue(numerals[1]), DigitsValue(numerals[2])>>

\* build_episode_context with a fault: a later video replaces the recorded one
RecordVideoLastWins(ctx, video, r) ==
    LET episode_string == r.value
        numerals == extract_season_episode_numbers(episode_string)
    IN IF Truthy(episode_string) /\ numerals[1] # <<>> /\ numerals[2] # <<>>
       THEN [cache |-> r.cache,
             video_episodes |-> Put(ctx.video_episodes, EpisodeKey(numerals), episode_string),
             temp_video_dict |-> Put(ctx.temp_video_dict, episode_string, video)]
       ELSE [ctx EXCEPT !.cache = r.cache]

\* the body of build_episode_context's loop, after the cached lookup r of video
RecordVideo(ctx, video, r) ==
    LET episode_string == r.value
        numerals == extract_season_episode_numbers(episode_string)
        key == EpisodeKey(numerals)
    IN IF Truthy(episode_string) /\ numerals[1] # <<>> /\ numerals[2] # <<>>
       THEN IF key \notin DOMAIN ctx.video_episodes
            THEN [cache |-> r.cache,
                  video_episodes |-> Put(ctx.video_episodes, key, episode_string),
                  temp_video_dict |-> Put(ctx.temp_video_dict, episode_string, video)]
            ELSE IF episode_string \notin DOMAIN ctx.temp_video_dict
            THEN [cache |-> r.cache,
                  video_episodes |-> ctx.video_episodes,
                  temp_video_dict |-> Put(ctx.temp_video_dict, episode_string, video)]
            ELSE [ctx EXCEPT !.cache = r.cache]
       ELSE [ctx EXCEPT !.cache = r.cache]

RECURSIVE BuildFrom(_, _)
BuildFrom(ctx, videos) ==
    IF videos = <<>> THEN ctx
    ELSE BuildFrom(RecordVideo(ctx, Head(videos), get_episode_number_cached(ctx.cache, Head(videos))),
                   Tail(videos))
\* build_episode_context with a fault: the videos are taken in the order of
\* the listing
build_episode_context_unsorted(c, video_files) ==
    BuildFrom([cache |-> c, video_episodes |-> EmptyDict, temp_video_dict |-> EmptyDict],
              video_files)
\* build_episode_context(video_files), the cache being c at the call
build_episode_context(c, video_files) ==
    BuildFrom([cache |-> c, video_episodes |-> EmptyDict, temp_video_dict |-> EmptyDict],
              sorted(video_files))

\* FindTarget with a fault: a subtitle with an episode id that no recorded
\* video carries is given some recorded video
FindTargetFallback(r, video_episodes, temp_video_dict, tool) ==
    LET ep == r.value
        numerals == extract_season_episode_numbers(ep)
        key == EpisodeKey(numerals)
        adjusted == IF Truthy(ep) /\ numerals[1] # <<>> /\ numerals[2] # <<>>
                       /\ key \in DOMAIN video_episodes
                    THEN video_episodes[key] ELSE ep
    IN IF Truthy(adjusted) /\ adjusted \in DOMAIN temp_video_dict
       THEN [ep |-> ep, adjusted_episode_string |-> adjusted,
             target_video |-> temp_video_dict[adjusted]]
       ELSE IF Truthy(ep) /\ DOMAIN temp_video_dict # {}
       THEN [ep |-> ep, adjusted_episode_string |-> ep,
             target_video |-> temp_video_dict[CHOOSE e \in DOMAIN temp_video_dict : TRUE]]
       ELSE [ep |-> ep, adjusted_episode_string |-> adjusted, target_video |-> None]

\* phase 2, one subtitle: the episode id ep, the adjusted id and the target
\* video (None when there is none), given the cached lookup r of the subtitle;
\* only the renamer resets the adjusted id in the elif branch
FindTarget(r, video_episodes, temp_video_dict, tool) ==
    LET ep == r.value
        numerals == extract_season_episode_numbers(ep)
        key == EpisodeKey(numerals)
        adjusted == IF Truthy(ep) /\ numerals[1] # <<>> /\ numerals[2] # <<>>
                       /\ key \in DOMAIN video_episodes
                    THEN video_episodes[key] ELSE ep
    IN IF Truthy(adjusted) /\ adjusted \in DOMAIN temp_video_dict
       THEN [ep |-> ep, adjusted_episode_string |-> adjusted,
             target_video |-> temp_video_dict[adjusted]]
       ELSE IF Truthy(ep) /\ ep \in DOMAIN temp_video_dict
       THEN [ep |-> ep, adjusted_episode_string |-> IF tool = "rename" THEN ep ELSE adjusted,
             target_video |-> temp_video_dict[ep]]
       ELSE [ep |-> ep, adjusted_episode_string |-> adjusted, target_video |-> None]

\* embed_subtitle: the working directory d and backups/ b after the call that
\* fails at point fail ("none": it succeeds), and what it returns
EmbeddedName(video) == PathStem(video) \o <<".","e","m","b","e","d","d","e","d",".","m","k","v">>
cleanup_failed_merge(d, embedded_file) ==
    IF Exists(d, embedded_file) THEN Without(d, embedded_file) ELSE d
Failed(d, b, backups_dir) == [dir |-> d, backups |-> b, success |-> FALSE, backups_dir |-> backups_dir]
embed_subtitle(d, b, video, subtitle, backups_dir, fail) ==
    LET embedded_file == EmbeddedName(video)
        merged == Put(d, embedded_file, d[video] \o d[subtitle])
        made == [b EXCEPT !.exists = TRUE]
        video_moved == ~Exists(made.files, video)
        d1 == IF video_moved THEN Without(merged, video) ELSE merged
        b1 == IF video_moved THEN [made EXCEPT !.files = Put(made.files, video, d[video])] ELSE made
        subtitle_moved == ~Exists(b1.files, subtitle)
        d2 == IF subtitle_moved THEN Without(d1, subtitle) ELSE d1
        b2 == IF subtitle_moved THEN [b1 EXCEPT !.files = Put(b1.files, subtitle, d[subtitle])] ELSE b1
        d3 == IF Exists(d2, subtitle) THEN Without(d2, subtitle) ELSE d2
        final == Put(Without(d3, embedded_file), video, merged[embedded_file])
    IN CASE fail = "mkvmerge" -> Failed(cleanup_failed_merge(d, embedded_file), b, backups_dir)
         [] fail = "mkdir" -> Failed(cleanup_failed_merge(merged, embedded_file), b, backups_dir)
         [] fail = "move_video" -> Failed(cleanup_failed_merge(merged, embedded_file), made, TRUE)
         [] fail = "move_subtitle" -> Failed(cleanup_failed_merge(d1, embedded_file), b1, TRUE)
         [] fail = "unlink" -> Failed(cleanup_failed_merge(d2, embedded_file), b2, TRUE)
         [] fail = "replace" -> Failed(cleanup_failed_merge(d3, embedded_file), b2, TRUE)
         [] fail = "none" -> [dir |-> final, backups |-> b2, success |-> TRUE, backups_dir |-> TRUE]
\* the points at which this call can fail: mkvmerge needs both files; a step of
\* the backup workflow can raise only if it runs
FailurePoints(d, b, video, subtitle, backups_dir) ==
    IF ~Exists(d, video) \/ ~Exists(d, subtitle) THEN {"mkvmerge"}
    ELSE {"none", "mkvmerge", "replace"}
         \cup (IF ~backups_dir /\ ~b.exists THEN {"mkdir"} ELSE {})
         \cup (IF ~Exists(b.files, video) THEN {"move_video"} ELSE {})
         \cup (IF ~Exists(b.files, subtitle) THEN {"move_subtitle"} ELSE {"unlink"})

(***************************************************************************)
(* Movie mode: the title comparison of one video and one subtitle          *)
(***************************************************************************)
YEAR_PATTERN == Cat(<<Alt(<<Cat(<<Lit("1"), Lit("9")>>), Cat(<<Lit("2"), Lit("0")>>)>>), D, D>>)
BASE_NAME_CLEANUP == Plus(Chr({".", "_", "-"}))
COMMON_INDICATORS ==
    {<<"1","0","8","0","p">>, <<"2","1","6","0","p">>, <<"4","8","0","p">>, <<"4","k">>,
     <<"7","2","0","p">>, <<"a","a","c">>, <<"a","c","3">>, <<"a","r">>, <<"a","r","a">>,
     <<"a","v","c">>, <<"b","l","u","r","a","y">>, <<"c","c">>, <<"c","h">>, <<"c","h","s">>,
     <<"c","h","t">>, <<"c","u","t">>, <<"d","c">>, <<"d","e">>,
     <<"d","i","r","e","c","t","o","r","s">>, <<"d","i","v","x">>, <<"d","t","s">>,
     <<"d","u","b">>, <<"d","u","b","b","e","d">>, <<"d","v","d">>, <<"e","n">>, <<"e","n","g">>,
     <<"e","s">>, <<"e","x","t","e","n","d","e","d">>, <<"f","i","n","a","l">>, <<"f","r">>,
     <<"f","r","e">>, <<"g","e","r">>, <<"h","2","6","4">>, <<"h","2","6","5">>, <<"h","c">>,
     <<"h","d">>, <<"h","e","v","c">>, <<"i","n","t","e","r","n","a","l">>, <<"i","t","a">>,
     <<"j","p","n">>, <<"k","o","r">>, <<"l","i","m","i","t","e","d">>, <<"m","u","l","t","i">>,
     <<"n","t","s","c">>, <<"p","a","l">>, <<"p","o","s","t">>, <<"p","r","e">>,
     <<"p","r","o","p","e","r">>, <<"r","e","m","u","x">>, <<"r","e","p","a","c","k">>,
     <<"s","d","h">>, <<"s","p","a">>, <<"s","u","b">>, <<"s","y","n","c">>,
     <<"s","y","n","c","o","p","a","t","e","d">>, <<"t","h","e","a","t","r","i","c","a","l">>,
     <<"u","n","r","a","t","e","d">>, <<"w","e","b">>, <<"x","2","6","4">>, <<"x","2","6","5">>,
     <<"x","v","i","d">>}
\* the renamer's set has one more word
COMMON_INDICATORS_rename == COMMON_INDICATORS \cup {<<"r","e","a","l">>}
FILLER_WORDS ==
    {<<"a">>, <<"a","b","o","u","t">>, <<"a","b","o","v","e">>, <<"a","f","t","e","r">>,
     <<"a","l","l">>, <<"a","l","s","o">>, <<"a","m","o","n","g">>, <<"a","n">>, <<"a","n","d">>,
     <<"a","r","e">>, <<"a","s">>, <<"a","t">>, <<"b","e">>, <<"b","e","e","n">>,
     <<"b","e","f","o","r","e">>, <<"b","e","i","n","g">>, <<"b","e","l","o","w">>,
     <<"b","e","t","w","e","e","n">>, <<"b","u","t">>, <<"b","y">>, <<"c","a","n">>,
     <<"d","i","d">>, <<"d","o">>, <<"d","o","e","s">>, <<"d","u","r","i","n","g">>,
     <<"e","i","g","h","t">>, <<"f","i","v","e">>, <<"f","o","r">>, <<"f","o","u","r">>,
     <<"f","r","o","m">>, <<"h","a","d">>, <<"h","a","s">>, <<"h","a","v","e">>, <<"i","n">>,
     <<"i","n","t","o">>, <<"i","s">>, <<"i","t">>, <<"i","t","s">>, <<"j","u","s","t">>,
     <<"m","o","r","e">>, <<"m","o","s","t">>, <<"n","i","n","e">>, <<"n","o">>, <<"n","o","r">>,
     <<"n","o","t">>, <<"o","f">>, <<"o","n">>, <<"o","n","e">>, <<"o","n","l","y">>, <<"o","r">>,
     <<"o","v","e","r">>, <<"s","e","v","e","n">>, <<"s","h","o","u","l","d">>, <<"s","i","x">>,
     <<"s","o">>, <<"s","o","m","e">>, <<"t","e","n">>, <<"t","h","a","n">>, <<"t","h","a","t">>,
     <<"t","h","e">>, <<"t","h","e","s","e">>, <<"t","h","i","s">>, <<"t","h","o","s","e">>,
     <<"t","h","r","e","e">>, <<"t","h","r","o","u","g","h">>, <<"t","o">>, <<"t","w","o">>,
     <<"u","n","d","e","r">>, <<"v","e","r","y">>, <<"w","a","s">>, <<"w","e","r","e">>,
     <<"w","i","l","l">>, <<"w","i","t","h">>, <<"y","e","t">>}

\* os.path.splitext(filename)[0] in the renamer, Path(filename).stem in the
\* embedder; runs of . _ - become one space; strip()
extract_base_name(filename, tool) ==
    Strip(ReSub(BASE_NAME_CLEANUP, <<" ">>,
                IF tool = "rename" THEN splitext(filename)[1] ELSE PathStem(filename)))
\* YEAR_PATTERN.search(filename): the year's text, or None
YearOf(filename) ==
    LET m == Search(YEAR_PATTERN, filename) IN IF m.start # 0 THEN Group0(filename, m) ELSE None
RECURSIVE SplitWords(_)
\* set(s.split())
SplitWords(s) ==
    LET t == LStrip(s) IN
    IF t = <<>> THEN {}
    ELSE LET n == IF \E i \in DOMAIN t : t[i] \in Space
                  THEN (CHOOSE i \in DOMAIN t : t[i] \in Space /\ \A j \in 1..(i - 1) : t[j] \notin Space) - 1
                  ELSE Len(t)
         IN {SubSeq(t, 1, n)} \cup SplitWords(SubSeq(t, n + 1, Len(t)))
\* the words of a name that are compared
WordsOf(filename, tool) ==
    SplitWords(Lower(extract_base_name(filename, tool)))
        \ (IF tool = "rename" THEN COMMON_INDICATORS_rename ELSE COMMON_INDICATORS \cup FILLER_WORDS)
\* sub in s
Contains(s, sub) == \E i \in 1..(Len(s) - Len(sub) + 1) : SubSeq(s, i, i + Len(sub) - 1) = sub
Min(a, b) == IF a <= b THEN a ELSE b

\* the comparison made once the year and the words of both names are known
MovieDecide(video, subtitle, video_year, subtitle_year, video_words, subtitle_words, tool) ==
    LET common_words == video_words \cap subtitle_words
        years_match == video_year # None /\ subtitle_year # None /\ video_year = subtitle_year
    IN IF years_match
       THEN IF \/ Cardinality(common_words) > 0
               \/ /\ tool = "rename"
                  /\ (Contains(video_year, <<"1","9">>) \/ Contains(video_year, <<"2","0">>))
            THEN <<video, subtitle>> ELSE None
       ELSE IF Cardinality(video_words) > 0 /\ Cardinality(subtitle_words) > 0
            THEN \* match_ratio >= 0.3 or len(common_words) > 0
                 IF \/ 10 * Cardinality(common_words)
                         >= 3 * Min(Cardinality(video_words), Cardinality(subtitle_words))
                    \/ Cardinality(common_words) > 0
                 THEN <<video, subtitle>> ELSE None
            ELSE None
\* find_movie_subtitle_match (renamer) / match_movie_files (embedder)
match_movie_files(video_files, subtitle_files, tool) ==
    IF Len(video_files) # 1 \/ Len(subtitle_files) # 1 THEN None
    ELSE MovieDecide(video_files[1], subtitle_files[1],
                     YearOf(video_files[1]), YearOf(subtitle_files[1]),
                     WordsOf(video_files[1], tool), WordsOf(subtitle_files[1], tool), tool)

VARIABLES
    filename,     \* the argument of the last extract_episode_info call
    outcome,      \* what that call returned (or raised)
    pair,         \* the arguments (subtitle_file, video_file) of match_subtitle_to_video
    resolved,     \* that call's locals at its return and the pair it returned
    lru,          \* the cache of get_episode_number_cached
    last,         \* the last operation on the cache, and the cache before it
    cfg,          \* the run's tool ("rename" / "embed") and its config
    dir,          \* the working directory: file name -> content
    backups,      \* the backups/ subdirectory: whether it exists, and its files
    ids,          \* for each name in the directory, what extract_episode_info gives
    run,          \* the locals of rename_subtitles_to_match_videos / process_embedding
    call          \* the arguments and the results of calls of the identifier functions

matcherVars == <<filename, outcome>>
resolverVars == <<pair, resolved>>
cacheVars == <<lru, last>>
pairingVars == <<cfg, dir, backups, ids, run>>
identifierVars == <<call>>
vars == <<matcherVars, resolverVars, cacheVars, pairingVars, identifierVars>>

NotCalled == [exc |-> "", value |-> <<>>, called |-> FALSE]
MatcherIdle == filename = <<>> /\ outcome = NotCalled
ResolverIdle == pair = <<>> /\ resolved = [done |-> FALSE]
NoOperation ==
    [op |-> "none", key |-> <<>>, value |-> None, ran |-> FALSE,
     before |-> EmptyCache, prev |-> "none", cleared |-> EmptyCache,
     first |-> EmptyDict, repeat |-> FALSE]
CacheIdle == lru = EmptyCache /\ last = NoOperation
NoBackups == [exists |-> FALSE, files |-> EmptyDict]
NotStarted ==
    [pc |-> "start", video_files |-> <<>>, subtitle_files |-> <<>>,
     video_episodes |-> EmptyDict, temp_video_dict |-> EmptyDict, queue |-> <<>>,
     rename_mapping |-> EmptyDict, renamed_count |-> 0,
     results |-> <<>>, embedded_count |-> 0, failed_count |-> 0, backups_dir |-> FALSE,
     targets |-> EmptyDict, renames |-> <<>>, log |-> <<>>,
     movie_attempted |-> FALSE, movie_mode_detected |-> FALSE, builds |-> 0,
     main |-> [pc |-> "running", exit_code |-> <<>>]]
PairingIdle ==
    cfg = <<>> /\ dir = EmptyDict /\ backups = NoBackups /\ ids = EmptyDict /\ run = NotStarted
\* no call made yet: no result in any field
NotYet == <<>>
NoCalls ==
    [pairs |-> <<>>, normalized |-> <<NotYet, NotYet>>, parsed |-> <<NotYet, NotYet>>,
     given |-> "nothing", text |-> NotYet, text_parsed |-> NotYet,
     movie |-> NotYet, movie_match |-> NotYet, unique |-> NotYet]
IdentifierIdle == call = NoCalls

InitMatcher ==
    /\ filename \in Filenames /\ outcome = NotCalled /\ ResolverIdle /\ CacheIdle /\ PairingIdle
    /\ IdentifierIdle

\* the call extract_episode_info(filename)
ExtractEpisodeInfo ==
    /\ ~outcome.called
    /\ outcome' = [ExtractOutcome(filename) EXCEPT !.called = TRUE]
    /\ UNCHANGED <<filename, resolverVars, cacheVars, pairingVars, identifierVars>>

NextMatcher == ExtractEpisodeInfo
SpecMatcher == InitMatcher /\ [][NextMatcher]_vars

(***************************************************************************)
(* Claims about the matcher                                                *)
(***************************************************************************)
Rules == 1..Len(EPISODE_PATTERNS)
Hit(k, f) == Search(EPISODE_PATTERNS[k].re, f)
Matching(f) == {k \in Rules : Hit(k, f).start # 0}
Extracted(k, f) == formatter(EPISODE_PATTERNS[k].fmt, f, Hit(k, f))
Succeeding(f) == {k \in Matching(f) : Extracted(k, f).exc = ""}
Failing(f) == Matching(f) \ Succeeding(f)
Least(S) == CHOOSE k \in S : \A j \in S : k <= j
Called == outcome.called

\* C1 as stated: the call returns the pair of the earliest rule (table order)
\* whose regex matches some substring, and no-match only when no rule matches.
C1_EarliestMatchingRule ==
    Called =>
        /\ outcome.exc = ""
        /\ IF Matching(filename) = {} THEN outcome.value = NoInfo
           ELSE /\ Extracted(Least(Matching(filename)), filename).exc = ""
                /\ outcome.value = Extracted(Least(Matching(filename)), filename).value
        /\ (filename = PriorityExample => outcome.value = <<1, 5>>)

\* C1 amended: the call returns the pair of the earliest rule (table order)
\* whose regex matches and whose extractor succeeds, whatever later rules match
\* and wherever; no-match exactly when no rule both matches and extracts; the
\* test suite's precedence example resolves to (1, 5).
C1_EarliestSucceedingRule ==
    Called =>
        /\ outcome.exc = ""
        /\ IF Succeeding(filename) = {} THEN outcome.value = NoInfo
           ELSE outcome.value = Extracted(Least(Succeeding(filename)), filename).value
        /\ (filename = PriorityExample => outcome.value = <<1, 5>>)

\* the winning rule is not the one that matches leftmost: a later rule matches
\* at an earlier position and would give another pair
C1_Witness ==
    /\ Called /\ Succeeding(filename) # {}
    /\ LET k == Least(Succeeding(filename)) IN
        \E j \in Succeeding(filename) :
            /\ j > k /\ Hit(j, filename).start < Hit(k, filename).start
            /\ Extracted(j, filename).value # outcome.value

\* the result of the rules after k, as the table orders them
After(k, f) == {j \in Succeeding(f) : j > k}
\* the same rule's next match, had the failed one been skipped
NextHitOfRule(k, f) == SearchFrom(EPISODE_PATTERNS[k].re, f, Hit(k, f).start + 1)

\* C2: when a rule's regex matches and its extractor raises, the rule counts
\* as not matching: nothing is raised to the caller and the call returns what
\* the rules after it in table order give (the first that extracts, else
\* no-match), not what a further match of the same rule would give.
C2_FailedExtractorSkipsRule ==
    Called =>
        \A k \in Failing(filename) :
            (\A j \in Succeeding(filename) : j > k) =>
                /\ outcome.exc = ""
                /\ outcome.value = IF After(k, filename) = {} THEN NoInfo
                                   ELSE Extracted(Least(After(k, filename)), filename).value

\* a rule matched, its extractor raised, and a later rule's pair came back
C2_Witness ==
    /\ Called /\ Failing(filename) # {} /\ Succeeding(filename) # {}
    /\ Least(Failing(filename)) < Least(Succeeding(filename))
    /\ outcome = Returned(Extracted(Least(Succeeding(filename)), filename).value)

\* a rule's first match failed to extract, a further match of the same rule
\* would extract, and the call did not return that pair
C2_WitnessNotNextMatch ==
    /\ Called
    /\ \E k \in Failing(filename) :
        LET m == NextHitOfRule(k, filename) IN
            /\ m.start # 0
            /\ formatter(EPISODE_PATTERNS[k].fmt, filename, m).exc = ""
            /\ outcome.value # formatter(EPISODE_PATTERNS[k].fmt, filename, m).value

\* the rules '## - ##', '- ##', '[##]' and '_##' (patterns 26 to 29)
RuleNamed(n) == CHOOSE k \in Rules : EPISODE_PATTERNS[k].name = n
GuardedRules == {RuleNamed("## - ##"), RuleNamed("- ##"), RuleNamed("[##]"), RuleNamed("_##")}
\* the rule whose pair the call returned
Fired(k) == Called /\ Succeeding(filename) # {} /\ k = Least(Succeeding(filename))
\* the digits at the end of match m of f, as <<first, last + 1>>
TrailingDigits(f, m) ==
    <<CHOOSE i \in m.start..m.end :
          /\ \A j \in i..(m.end - 1) : f[j] \in Digit
          /\ \A h \in m.start..(i - 1) : \E j \in h..(m.end - 1) : f[j] \notin Digit,
      m.end>>
\* the digit runs that match m of rule k covers in f
DigitSpans(k, f, m) ==
    IF k = RuleNamed("## - ##") THEN {m.caps[1], m.caps[2]}
    ELSE IF k = RuleNamed("[##]") THEN {m.caps[1]}
    ELSE {TrailingDigits(f, m)}
PrecededByAlnum(f, span) == span[1] > 1 /\ f[span[1] - 1] \in AlphaNum
FollowedByAlnum(f, span) == span[2] <= Len(f) /\ f[span[2]] \in AlphaNum

\* C18: a guarded bare-number rule ('## - ##', '- ##', '[##]', '_##') whose
\* pair is returned matched digits that are neither immediately preceded nor
\* immediately followed by another alphanumeric character, and "[10bit]" is
\* not read as episode 10.
C18_GuardedRulesNeverAdjacent ==
    Called =>
        /\ \A k \in GuardedRules :
               Fired(k) => \A span \in DigitSpans(k, filename, Hit(k, filename)) :
                               /\ ~PrecededByAlnum(filename, span)
                               /\ ~FollowedByAlnum(filename, span)
        /\ (filename = T_10bit => outcome.value = NoInfo)

\* what the four rules do guarantee, wherever their regex matches: no digit
\* run is followed by an alphanumeric character; the runs of '- ##', '[##]'
\* and '_##' and the episode of '## - ##' are not preceded by one; the season
\* of '## - ##' is not preceded by a digit, but may be preceded by a letter;
\* the '[##]' rule takes only digits enclosed directly by the brackets.
C18_GuardedButForLetterBeforeSeason ==
    Called =>
        /\ \A k \in GuardedRules \cap Matching(filename) :
               \A span \in DigitSpans(k, filename, Hit(k, filename)) :
                   /\ ~FollowedByAlnum(filename, span)
                   /\ PrecededByAlnum(filename, span) =>
                          /\ k = RuleNamed("## - ##")
                          /\ span = Hit(k, filename).caps[1]
                          /\ filename[span[1] - 1] \notin Digit
                   /\ k = RuleNamed("[##]") =>
                          filename[span[1] - 1] = "[" /\ filename[span[2]] = "]"
        /\ (filename = T_10bit => outcome.value = NoInfo)

\* the '## - ##' rule returned season 12 of "Show12 - 34", whose digits 12
\* come directly after the letter w
C18_Witness ==
    /\ Called /\ filename = T_Show \o T_nn
    /\ Fired(RuleNamed("## - ##"))
    /\ outcome.value = <<12, 34>>

\* C19: the '- ##' and '_##' rules do not match a dash- or underscore-prefixed
\* number of four digits from 1900 up (-1999, _2023), and every pair they
\* give has season 1 and an episode of at most 1899.
C19_YearsRejected ==
    Called =>
        /\ \A k \in {RuleNamed("- ##"), RuleNamed("_##")} \cap Matching(filename) :
               LET span == TrailingDigits(filename, Hit(k, filename))
                   number == SubSeq(filename, span[1], span[2] - 1)
               IN /\ ~FollowedByAlnum(filename, span) /\ ~PrecededByAlnum(filename, span)
                  /\ Len(number) <= 4 /\ DigitsValue(number) <= 1899
                  /\ Extracted(k, filename) = Returned(<<1, DigitsValue(number)>>)
                  /\ Fired(k) => outcome.value[1] = 1 /\ outcome.value[2] <= 1899
        /\ (filename \in {T_year, T_us2023, T_year \o T_us2023} => outcome.value = NoInfo)

\* in "-1999_1899" the year after the dash was passed over and the '_##'
\* rule gave episode 1899
C19_Witness ==
    /\ Called /\ filename = T_year \o T_us1899
    /\ Hit(RuleNamed("- ##"), filename).start = 0
    /\ Fired(RuleNamed("_##"))
    /\ outcome.value = <<1, 1899>>
(***************************************************************************)
(* match_subtitle_to_video: the final-season resolver                      *)
(***************************************************************************)
R01 == <<"S","h","o","w",".","S","0","8","E","0","1",".","m","k","v">>
R02 == <<"S","h","o","w",".","S","0","8","E","0","2",".","m","k","v">>
R03 == <<"S","h","o","w",".","S","0","1","E","0","1",".","m","k","v">>
R04 == <<"S","h","o","w",".","S","0","7","E","0","1",".","a","s","s">>
R05 == <<"F","I","N","A","L"," ","S","E","A","S","O","N"," ","-"," ","0","1",".","a","s","s">>
R06 == <<"S","h","o","w"," ","F","I","N","A","L"," ","S","E","A","S","O","N"," ","-"," ","0","1",".","a","s","s">>
R07 == <<"F","I","N","A","L",".","S","E","A","S","O","N",".","E","0","1",".","m","k","v">>
R08 == <<"F","I","N","A","L",".","S","E","A","S","O","N",".","E","0","2",".","m","k","v">>
R09 == <<"S","h","o","w","_","F","I","N","A","L","_","S","E","A","S","O","N","_","0","1",".","m","k","v">>
R10 == <<"F","i","n","a","l","-","S","e","a","s","o","n",".","S","0","4","E","0","1",".","m","k","v">>
R11 == <<"F","i","n","a","l"," ","S","e","a","s","o","n"," ","S","0","1","E","0","1",".","a","s","s">>
R12 == <<"F","I","N","A","L","S"," ","-"," ","0","1",".","m","k","v">>
R13 == <<"R","a","n","d","o","m",".","M","o","v","i","e",".","2","0","2","3",".","a","s","s">>
R14 == <<"S","h","o","w",".","F","I","N","A","L"," "," ","S","E","A","S","O","N",".","2","x","0","1",".","a","s","s">>
R15 == <<"f","i","n","a","l"," ","s","e","a","s","o","n"," ","1","x","0","1",".","s","r","t">>
R16 == <<"S","h","o","w"," ","-"," ","0","1",".","s","r","t">>
ResolverNames == {R01, R02, R03, R04, R05, R06, R07, R08, R09, R10, R11, R12, R13, R14, R15, R16}

InitResolver ==
    /\ pair \in ResolverNames \X ResolverNames
    /\ resolved = [done |-> FALSE]
    /\ MatcherIdle /\ CacheIdle /\ PairingIdle /\ IdentifierIdle

\* the call match_subtitle_to_video(pair[1], pair[2])
MatchSubtitleToVideo ==
    /\ ~resolved.done
    /\ resolved' = [done |-> TRUE] @@ MatchRun(pair[1], pair[2])
    /\ UNCHANGED <<pair, matcherVars, cacheVars, pairingVars, identifierVars>>

NextResolver == MatchSubtitleToVideo
SpecResolver == InitResolver /\ [][NextResolver]_vars

Raw(i) == extract_episode_info(pair[i])
HasFinal(i) == detect_final_season_keyword(pair[i])
Info(i) == IF i = 1 THEN resolved.sub_info ELSE resolved.vid_info
Other(i) == 3 - i
BothExtracted == Raw(1) # NoInfo /\ Raw(2) # NoInfo
\* file i qualifies for inference from the other file
Defaulted(i) == HasFinal(i) /\ Raw(i)[1] = 1 /\ Raw(Other(i))[1] # 1
Rewritten(i) == Info(i) # Raw(i)

\* C6: a file that contains the final-season phrase, with extracted season 1,
\* paired with a file of extracted season other than 1, takes the other file's
\* season and keeps its episode number; subtitle and video alike; so
\* 'FINAL SEASON - 01' with 'S08E01' resolves both to S08E01.
C6_FinalSeasonInference ==
    (resolved.done /\ BothExtracted) =>
        /\ \A i \in {1, 2} :
            Defaulted(i) => Info(i) = <<Raw(Other(i))[1], Raw(i)[2]>>
        /\ (pair = <<R05, R01>> => resolved.ret = <<<<"S","0","8","E","0","1">>, <<"S","0","8","E","0","1">>>>)
        /\ (pair = <<R01, R07>> => resolved.ret = <<<<"S","0","8","E","0","1">>, <<"S","0","8","E","0","1">>>>)

\* the video (second argument) was the defaulted side and matched after inference
C6_Witness ==
    /\ resolved.done /\ BothExtracted /\ Defaulted(2)
    /\ Rewritten(2) /\ resolved.ret[1] # None

\* C7: at most one of the two files has its season rewritten; when both
\* contain the phrase and both extracted seasons are 1, neither is rewritten
\* and a returned identifier has season 01.
C7_AtMostOneRewritten ==
    (resolved.done /\ BothExtracted) =>
        /\ ~(Rewritten(1) /\ Rewritten(2))
        /\ (HasFinal(1) /\ HasFinal(2) /\ Raw(1)[1] = 1 /\ Raw(2)[1] = 1) =>
            /\ ~Rewritten(1) /\ ~Rewritten(2)
            /\ resolved.ret[1] # None =>
                extract_season_episode_numbers(resolved.ret[1])[1] = <<"0", "1">>

C7_Witness ==
    /\ resolved.done /\ BothExtracted
    /\ HasFinal(1) /\ HasFinal(2) /\ Raw(1)[1] = 1 /\ Raw(2)[1] = 1
    /\ resolved.ret[1] # None

\* C8: the call returns (None, None) or two identical canonical identifiers;
\* (None, None) whenever either extraction fails or the (possibly rewritten)
\* pairs of the two files differ, e.g. 'FINAL SEASON - 01' with 'S08E02'.
C8_BothOrNeither ==
    resolved.done =>
        /\ \/ resolved.ret = <<None, None>>
           \/ /\ resolved.ret[1] = resolved.ret[2] /\ resolved.ret[1] # None
              /\ resolved.ret[1] = normalize_episode_number(Info(1)[1], Info(1)[2])
        /\ (~BothExtracted \/ Info(1) # Info(2)) => resolved.ret = <<None, None>>
        /\ (pair = <<R05, R02>> => resolved.ret = <<None, None>>)

\* the season was inferred and the episodes still differ: no match
C8_Witness ==
    /\ resolved.done /\ BothExtracted /\ Rewritten(1)
    /\ Info(1) # Info(2) /\ resolved.ret = <<None, None>>

\* the call with the two arguments exchanged
Swapped == MatchRun(pair[2], pair[1])
\* C30: match_subtitle_to_video is symmetric in its two arguments: resolving
\* (a, b) yields (x, y) exactly when resolving (b, a) yields (y, x); which file
\* is passed as the subtitle never changes whether the pair resolves, to which
\* identifier, or which file's season is rewritten.
C30_Symmetric ==
    resolved.done =>
        /\ Swapped.ret = <<resolved.ret[2], resolved.ret[1]>>
        /\ Swapped.sub_info = resolved.vid_info
        /\ Swapped.vid_info = resolved.sub_info

\* two different files, the one passed as the subtitle had its season
\* rewritten, and the pair resolved
C30_Witness ==
    /\ resolved.done /\ pair[1] # pair[2]
    /\ Rewritten(1) /\ ~HasFinal(2)
    /\ resolved.ret[1] # None /\ resolved.ret[1] = Swapped.ret[2]
(***************************************************************************)
(* The cache: lookups and clears in any order                              *)
(***************************************************************************)
N_S1E5 == <<"S","1","E","5">>
N_2x07 == <<"2","x","0","7">>
N_none == <<"x">>
CacheNames == {N_S1E5, N_2x07, N_none}
MaxLookups == 4

InitCache ==
    /\ lru = EmptyCache /\ last = NoOperation /\ MatcherIdle /\ ResolverIdle /\ PairingIdle
    /\ IdentifierIdle

\* the effect of a lookup that returned r
Looked(f, r) ==
    /\ lru' = r.cache
    /\ last' = [op |-> "lookup", key |-> f, value |-> r.value, ran |-> r.ran,
                before |-> lru, prev |-> last.op, cleared |-> last.cleared,
                first |-> IF f \in DOMAIN last.first THEN last.first
                          ELSE Put(last.first, f, r.value),
                repeat |-> f \in DOMAIN last.first]

\* the call get_episode_number_cached(f)
GetEpisodeNumberCached ==
    /\ lru.hits + lru.misses < MaxLookups
    /\ \E f \in CacheNames : Looked(f, get_episode_number_cached(lru, f))
    /\ UNCHANGED <<matcherVars, resolverVars, pairingVars, identifierVars>>

\* the call clear_episode_cache()
ClearEpisodeCache ==
    /\ lru' = clear_episode_cache(lru)
    /\ last' = [op |-> "clear", key |-> <<>>, value |-> None, ran |-> FALSE,
                before |-> lru, prev |-> last.op, cleared |-> lru,
                first |-> EmptyDict, repeat |-> FALSE]
    /\ UNCHANGED <<matcherVars, resolverVars, pairingVars, identifierVars>>

NextCache == GetEpisodeNumberCached \/ ClearEpisodeCache
SpecCache == InitCache /\ [][NextCache]_vars

WasStored == last.key \in CacheKeys(last.before)

\* C9: a lookup of a filename that is not stored runs matcher and normalizer,
\* returns and stores their result (None included) and adds one to the miss
\* counter only; a lookup of a stored filename returns the stored value, does
\* not run them, and adds one to the hit counter only.
C9_MissComputesHitReturnsStored ==
    last.op = "lookup" =>
        IF WasStored
        THEN /\ ~last.ran
             /\ last.value = CacheStored(last.before, last.key)
             /\ lru.hits = last.before.hits + 1
             /\ lru.misses = last.before.misses
        ELSE /\ last.ran
             /\ last.value = Wrapped(last.key)
             /\ last.key \in CacheKeys(lru)
             /\ CacheStored(lru, last.key) = last.value
             /\ lru.misses = last.before.misses + 1
             /\ lru.hits = last.before.hits

\* a None result was stored by an earlier miss and is now returned by a hit
C9_Witness ==
    /\ last.op = "lookup" /\ WasStored /\ ~last.ran
    /\ last.value = None /\ last.before.misses >= 1

\* C10: clear_episode_cache leaves no entry and both counters at zero, whatever
\* the cache held; the lookup that follows a clear is a miss.
C10_ClearResetsEverything ==
    /\ last.op = "clear" =>
        /\ lru.entries = <<>> /\ lru.hits = 0 /\ lru.misses = 0
        /\ get_cache_info(lru) = [hits |-> 0, misses |-> 0, maxsize |-> maxsize, currsize |-> 0]
    /\ (last.op = "lookup" /\ last.prev = "clear") =>
        /\ last.ran
        /\ lru.misses = 1 /\ lru.hits = 0

\* a cache with entries, hits and misses was cleared, and a filename it held
\* was then looked up and missed
C10_Witness ==
    /\ last.op = "lookup" /\ last.prev = "clear" /\ last.ran
    /\ last.key \in CacheKeys(last.cleared)
    /\ last.cleared.hits > 0 /\ last.cleared.misses > 0

\* C11: across any sequence of cached lookups, evictions included, every
\* lookup of a filename returns what the first lookup of that filename since
\* the last clear returned (an identifier or None).
C11_SameResultAsFirstLookup ==
    last.op = "lookup" =>
        /\ last.key \in DOMAIN last.first
        /\ last.value = last.first[last.key]
        /\ \A f \in CacheKeys(lru) : f \in DOMAIN last.first /\ CacheStored(lru, f) = last.first[f]

\* a miss on a full cache drops the least recently used entry, and a hit
\* makes its entry the most recently used one
EvictsLeastRecentlyUsed ==
    last.op = "lookup" =>
        /\ Len(lru.entries) <= maxsize
        /\ lru.entries[Len(lru.entries)].key = last.key
        /\ (~WasStored /\ Len(last.before.entries) = maxsize) =>
               SubSeq(lru.entries, 1, maxsize - 1) = Tail(last.before.entries)

\* a filename looked up before was evicted, looked up again and recomputed
C11_Witness ==
    /\ last.op = "lookup" /\ last.repeat /\ ~WasStored /\ last.ran
    /\ Len(last.before.entries) = maxsize
    /\ last.value # None /\ last.value = last.first[last.key]
(***************************************************************************)
(* A run of the renamer or of the embedder on a directory                  *)
(***************************************************************************)
F_v1 == <<"a",".","S","0","1","E","0","5",".","m","k","v">>
F_v2 == <<"b",".","1","x","0","5",".","M","K","V">>
F_v3 == <<"c",".","S","1","E","6",".","m","p","4">>
F_s1 == <<"A",".","S","1","E","5",".","s","r","t">>
F_s2 == <<"a",".","S","0","1","E","0","5",".","s","r","t">>
F_s3 == <<"a",".","S","0","1","E","0","5",".","A",".","S","1","E","5",".","s","r","t">>
F_s4 == <<"c",".","S","1","E","6",".","a","s","s">>
F_s5 == <<"x",".","s","r","t">>
F_v4 == <<"x",".","2","0","2","3",".","m","k","v">>
Pool == {F_v1, F_v2, F_v3, F_v4, F_s1, F_s2, F_s3, F_s4, F_s5}
MaxFiles == 4
Directories == {S \in SUBSET Pool : Cardinality(S) <= MaxFiles}
\* the files of the final-season example ('Show FINAL SEASON - 01.ass' with
\* 'Show.S08E01.mkv'), a second video of that season, a subtitle of the same
\* form without the phrase, and a movie pair
FinalSeasonPool == {R01, R02, R06, R16, F_v4, F_s5}
FinalSeasonDirectories == {S \in SUBSET FinalSeasonPool : Cardinality(S) <= MaxFiles}
\* backups/ left by an earlier run of the embedder
OldBackups == [exists |-> TRUE, files |-> (F_v1 :> <<F_v1>>) @@ (F_s1 :> <<F_s1>>)]
Configs ==
    {[tool |-> "rename", language_suffix |-> <<>>],
     [tool |-> "rename", language_suffix |-> <<"a","r">>],
     [tool |-> "embed", language_suffix |-> <<>>]}
\* the lists a directory listing can give for a set of names
Orders(S) == {o \in [1..Cardinality(S) -> S] : \A i, j \in DOMAIN o : o[i] = o[j] => i = j}

\* f.lower().endswith(exts) of the renamer
HasExtension(f, exts) == \E i \in DOMAIN exts : EndsWith(Lower(f), <<".">> \o exts[i])
\* f.suffix.lower().lstrip('.') in exts of the embedder
SuffixIn(f, exts) == LStripDots(Lower(PathSuffix(f))) \in SeqRange(exts)
IsMkv(f) == Lower(PathSuffix(f)) = <<".","m","k","v">>
\* the names that become video_files / mkv_videos and subtitle_files
ListedVideos ==
    IF cfg.tool = "rename" THEN {f \in DOMAIN dir : HasExtension(f, video_extensions)}
    ELSE {f \in DOMAIN dir : SuffixIn(f, video_extensions) /\ IsMkv(f)}
ListedSubtitles ==
    IF cfg.tool = "rename" THEN {f \in DOMAIN dir : HasExtension(f, subtitle_extensions)}
    ELSE {f \in DOMAIN dir : SuffixIn(f, subtitle_extensions)}

InitPairing ==
    /\ cfg \in Configs
    /\ \E S \in Directories : dir = [f \in S |-> <<f>>]
    /\ backups \in (IF cfg.tool = "embed" THEN {NoBackups, OldBackups} ELSE {NoBackups})
    /\ ids = [f \in DOMAIN dir |-> extract_episode_info(f)]
    /\ run = NotStarted
    /\ CacheIdle /\ MatcherIdle /\ ResolverIdle /\ IdentifierIdle

\* os.listdir / iterdir and the split into videos and subtitles; the embedder
\* returns at once when it finds no MKV video or no subtitle
ListDirectory ==
    /\ run.pc = "start"
    /\ \E vf \in Orders(ListedVideos), sf \in Orders(ListedSubtitles) :
        run' = [run EXCEPT !.video_files = vf, !.subtitle_files = sf,
                           !.pc = IF cfg.tool = "embed" /\ (vf = <<>> \/ sf = <<>>)
                                  THEN "returned" ELSE "listed"]
    /\ UNCHANGED <<cfg, dir, backups, ids, matcherVars, resolverVars, cacheVars, identifierVars>>

\* Built with a fault: the run does not move on to phase 2, so the table is
\* built again
BuiltStaysListed(ctx) ==
    /\ lru' = ctx.cache
    /\ run' = [run EXCEPT !.video_episodes = ctx.video_episodes,
                          !.temp_video_dict = ctx.temp_video_dict,
                          !.builds = run.builds + 1]
\* the effect of build_episode_context returning ctx
Built(ctx) ==
    /\ lru' = ctx.cache
    /\ run' = [run EXCEPT !.video_episodes = ctx.video_episodes,
                          !.temp_video_dict = ctx.temp_video_dict,
                          !.builds = run.builds + 1,
                          !.queue = sorted(run.subtitle_files),
                          !.pc = "phase2"]

\* phase 1: the call build_episode_context(video_files)
BuildEpisodeContext ==
    /\ run.pc = "listed"
    /\ Built(build_episode_context(lru, run.video_files))
    /\ UNCHANGED <<cfg, dir, backups, ids, last, matcherVars, resolverVars, identifierVars>>

\* OutcomeOf with a fault: the elif is missing, every unmatched subtitle is
\* reported as having no episode
OutcomeOfNoElif(t) == IF t.target_video # None THEN "matched" ELSE "no episode"

\* the branch taken for a subtitle in phase 2: if target_video / elif ep / else
\* in the renamer; a result with a video, or 'no_match' with the episode or
\* 'N/A', in the embedder
OutcomeOf(t) ==
    IF t.target_video # None THEN "matched"
    ELSE IF Truthy(t.ep) THEN "no match" ELSE "no episode"
Logged(subtitle, t) == Append(run.log, [subtitle |-> subtitle, outcome |-> OutcomeOf(t)])

\* one iteration of process_subtitles' loop for subtitle, whose cached lookup
\* returned r and whose target is t: a matched subtitle is renamed to the name
\* generate_unique_name returns; os.rename raises when the old path is gone
Renamed(subtitle, r, t) ==
    LET base_name == splitext(t.target_video)[1]
        subtitle_ext == splitext(subtitle)[2]
        new_name == generate_unique_name(base_name, subtitle_ext, subtitle, dir,
                                         cfg.language_suffix)
    IN IF t.target_video = None
       THEN /\ run' = [run EXCEPT !.rename_mapping = Put(run.rename_mapping, subtitle, None),
                                  !.targets = Put(run.targets, subtitle, None),
                                  !.log = Logged(subtitle, t),
                                  !.queue = Tail(run.queue)]
            /\ dir' = dir
       ELSE IF ~Exists(dir, subtitle)
       THEN /\ run' = [run EXCEPT !.pc = "raised",
                                  !.targets = Put(run.targets, subtitle, t.target_video)]
            /\ dir' = dir
       ELSE /\ run' = [run EXCEPT !.rename_mapping = Put(run.rename_mapping, subtitle, new_name),
                                  !.renamed_count = run.renamed_count + 1,
                                  !.targets = Put(run.targets, subtitle, t.target_video),
                                  !.renames = Append(run.renames,
                                      [subtitle |-> subtitle, new_name |-> new_name,
                                       target_video |-> t.target_video,
                                       existed |-> Exists(dir, new_name)]),
                                  !.log = Logged(subtitle, t),
                                  !.queue = Tail(run.queue)]
            /\ dir' = Put(Without(dir, subtitle), new_name, dir[subtitle])

Looked2(subtitle, r) ==
    /\ lru' = r.cache
    /\ Renamed(subtitle, r, FindTarget(r, run.video_episodes, run.temp_video_dict, "rename"))

\* phase 2 of the renamer: the next subtitle in sorted order
RenameSubtitle ==
    /\ cfg.tool = "rename" /\ run.pc = "phase2" /\ run.queue # <<>>
    /\ Looked2(Head(run.queue), get_episode_number_cached(lru, Head(run.queue)))
    /\ UNCHANGED <<cfg, backups, ids, last, matcherVars, resolverVars, identifierVars>>

\* one iteration of process_embedding's loop for a matched subtitle whose
\* embed_subtitle call gave e
Embedded(subtitle, t, e) ==
    /\ dir' = e.dir
    /\ backups' = e.backups
    /\ run' = [run EXCEPT
                 !.embedded_count = IF e.success THEN run.embedded_count + 1 ELSE run.embedded_count,
                 !.failed_count = IF e.success THEN run.failed_count ELSE run.failed_count + 1,
                 !.backups_dir = e.backups_dir,
                 !.results = Append(run.results,
                     [subtitle |-> subtitle, video |-> t.target_video,
                      episode |-> t.adjusted_episode_string,
                      status |-> IF e.success THEN "success" ELSE "failed"]),
                 !.targets = Put(run.targets, subtitle, t.target_video),
                 !.log = Logged(subtitle, t),
                 !.queue = Tail(run.queue)]

Unmatched(subtitle, t) ==
    /\ run' = [run EXCEPT
                 !.results = Append(run.results,
                     [subtitle |-> subtitle, video |-> None,
                      episode |-> IF Truthy(t.ep) THEN t.ep ELSE <<"N","/","A">>,
                      status |-> "no_match"]),
                 !.targets = Put(run.targets, subtitle, None),
                 !.log = Logged(subtitle, t),
                 !.queue = Tail(run.queue)]
    /\ UNCHANGED <<dir, backups>>

Looked3(subtitle, r, t) ==
    /\ lru' = r.cache
    /\ IF t.target_video = None THEN Unmatched(subtitle, t)
       ELSE \E fail \in FailurePoints(dir, backups, t.target_video, subtitle, run.backups_dir) :
                Embedded(subtitle, t,
                         embed_subtitle(dir, backups, t.target_video, subtitle,
                                        run.backups_dir, fail))

Looked4(subtitle, r) ==
    Looked3(subtitle, r, FindTarget(r, run.video_episodes, run.temp_video_dict, "embed"))

\* phase 2 of the embedder: the next subtitle in sorted order
EmbedSubtitle ==
    /\ cfg.tool = "embed" /\ run.pc = "phase2" /\ run.queue # <<>>
    /\ Looked4(Head(run.queue), get_episode_number_cached(lru, Head(run.queue)))
    /\ UNCHANGED <<cfg, ids, last, matcherVars, resolverVars, identifierVars>>

\* the values of the movie comparison of each tool on one video and one
\* subtitle of the pool (the only lists the movie-mode steps pass to it)
movie_matches ==
    [tool \in {"rename", "embed"} |->
        [video \in Pool \cup FinalSeasonPool |-> [subtitle \in Pool \cup FinalSeasonPool |->
            match_movie_files(<<video>>, <<subtitle>>, tool)]]]

\* f stays in the list when its cached lookup r gave no identifier
Kept(acc, f, r) ==
    [cache |-> r.cache,
     files |-> IF Truthy(r.value) THEN acc.files ELSE Append(acc.files, f)]
RECURSIVE RemainingFrom(_, _)
\* [f for f in files if not get_episode_number_cached(f)], the cache being
\* acc.cache at the first lookup
RemainingFrom(acc, files) ==
    IF files = <<>> THEN acc
    ELSE RemainingFrom(Kept(acc, Head(files), get_episode_number_cached(acc.cache, Head(files))),
                       Tail(files))
SelectIn(seq, S) == SelectSeq(seq, LAMBDA f : f \in S)

\* the renamer after process_subtitles: rem holds the video and subtitle names
\* without an episode id; movie matching is tried when nothing was renamed and
\* one video and one subtitle remain, and a match is renamed to the standard name
MovieRenamed(remaining_video_files, remaining_subtitle_files, movie_match) ==
    IF run.renamed_count = 0 /\ Len(remaining_video_files) = 1
                             /\ Len(remaining_subtitle_files) = 1
    THEN IF movie_match # None
         THEN LET video_file == movie_match[1]
                  subtitle_file == movie_match[2]
                  new_name == build_subtitle_filename(splitext(video_file)[1],
                                                      splitext(subtitle_file)[2],
                                                      cfg.language_suffix)
              IN IF ~Exists(dir, subtitle_file)
                 THEN /\ run' = [run EXCEPT !.pc = "raised", !.movie_attempted = TRUE]
                      /\ dir' = dir
                 ELSE /\ run' = [run EXCEPT
                                   !.pc = "done", !.movie_attempted = TRUE,
                                   !.movie_mode_detected = TRUE,
                                   !.rename_mapping = Put(run.rename_mapping, subtitle_file, new_name),
                                   !.renamed_count = run.renamed_count + 1]
                      /\ dir' = Put(Without(dir, subtitle_file), new_name, dir[subtitle_file])
         ELSE /\ run' = [run EXCEPT !.pc = "done", !.movie_attempted = TRUE]
              /\ dir' = dir
    ELSE /\ run' = [run EXCEPT !.pc = "done"]
         /\ dir' = dir

\* find_movie_subtitle_match(remaining_video_files, remaining_subtitle_files),
\* called with one name in each list
Remaining(remaining_video_files, remaining_subtitle_files) ==
    MovieRenamed(remaining_video_files, remaining_subtitle_files,
                 movie_matches["rename"][remaining_video_files[1]][remaining_subtitle_files[1]])

Remained(rem) ==
    /\ lru' = rem.cache
    /\ Remaining(SelectIn(rem.files, SeqRange(run.video_files)),
                 SelectIn(rem.files, SeqRange(run.subtitle_files)))

\* the movie-mode step of rename_subtitles_to_match_videos
MovieModeRename ==
    /\ cfg.tool = "rename" /\ run.pc = "phase2" /\ run.queue = <<>>
    /\ Remained(RemainingFrom([cache |-> lru, files |-> <<>>],
                              run.video_files \o run.subtitle_files))
    /\ UNCHANGED <<cfg, backups, ids, last, matcherVars, resolverVars, identifierVars>>

\* the embedder's movie-mode embed_subtitle call gave e: the subtitle's entry
\* in results is replaced
MovieEmbedded(video_file, subtitle_file, e) ==
    /\ dir' = e.dir
    /\ backups' = e.backups
    /\ run' = [run EXCEPT
                 !.pc = "done", !.movie_attempted = TRUE,
                 !.embedded_count = IF e.success THEN run.embedded_count + 1 ELSE run.embedded_count,
                 !.failed_count = IF e.success THEN run.failed_count ELSE run.failed_count + 1,
                 !.backups_dir = e.backups_dir,
                 !.results = Append(SelectSeq(run.results, LAMBDA r : r.subtitle # subtitle_file),
                     [subtitle |-> subtitle_file, video |-> video_file,
                      episode |-> <<"M","o","v","i","e">>,
                      status |-> IF e.success THEN "success" ELSE "failed"])]

MovieTried(movie_match) ==
    IF movie_match # None
    THEN \E fail \in FailurePoints(dir, backups, movie_match[1], movie_match[2], run.backups_dir) :
             MovieEmbedded(movie_match[1], movie_match[2],
                           embed_subtitle(dir, backups, movie_match[1], movie_match[2],
                                          run.backups_dir, fail))
    ELSE /\ run' = [run EXCEPT !.pc = "done", !.movie_attempted = TRUE]
         /\ UNCHANGED <<dir, backups>>

\* the movie-mode step of process_embedding: tried when no embedding succeeded
\* and there is one MKV video and one subtitle
MovieModeEmbed ==
    /\ cfg.tool = "embed" /\ run.pc = "phase2" /\ run.queue = <<>>
    /\ IF run.embedded_count = 0 /\ Len(run.video_files) = 1 /\ Len(run.subtitle_files) = 1
       THEN MovieTried(movie_matches["embed"][run.video_files[1]][run.subtitle_files[1]])
       ELSE /\ run' = [run EXCEPT !.pc = "done"]
            /\ UNCHANGED <<dir, backups>>
    /\ UNCHANGED <<cfg, ids, cacheVars, matcherVars, resolverVars, identifierVars>>

EXIT_SUCCESS == 0
EXIT_PARTIAL_FAILURE == 2
EXIT_COMPLETE_FAILURE == 3
StatusCount(results, status) == Len(SelectSeq(results, LAMBDA r : r.status = status))
\* main() of the embedder after process_embedding: process_data['results'] on
\* the dictionary of a completed run, or on the list [] of an early return,
\* which raises TypeError; then the exit code from the statuses in results
EmbedMain ==
    /\ cfg.tool = "embed" /\ run.main.pc = "running" /\ run.pc \in {"returned", "done"}
    /\ IF run.pc = "returned"
       THEN run' = [run EXCEPT !.main.pc = "TypeError"]
       ELSE LET successful == StatusCount(run.results, "success")
                failed == StatusCount(run.results, "failed")
            IN run' = [run EXCEPT !.main =
                          [pc |-> "returned",
                           exit_code |-> <<IF failed = 0 THEN EXIT_SUCCESS
                                           ELSE IF successful > 0 THEN EXIT_PARTIAL_FAILURE
                                           ELSE EXIT_COMPLETE_FAILURE>>]]
    /\ UNCHANGED <<cfg, dir, backups, ids, cacheVars, matcherVars, resolverVars, identifierVars>>

NextPairing ==
    \/ ListDirectory \/ BuildEpisodeContext \/ RenameSubtitle \/ EmbedSubtitle
    \/ MovieModeRename \/ MovieModeEmbed \/ EmbedMain
SpecPairing == InitPairing /\ [][NextPairing]_vars

\* the videos of the run (the list handed to phase 1: every listed video in
\* the renamer, the MKV videos in the embedder) that carry the integer pair k
VideosWithKey(k) == {v \in SeqRange(run.video_files) : ids[v] = k}
KeysOfVideos == {ids[v] : v \in SeqRange(run.video_files)} \ {NoInfo}
\* the first of them in sorted filename order
FirstWithKey(k) ==
    CHOOSE v \in VideosWithKey(k) : \A w \in VideosWithKey(k) : v = w \/ StrLess(v, w)
Phase1Done == run.pc \in {"phase2", "raised", "done"}

\* C3: in phase 2 of the renamer and of the embedder, a subtitle is matched if
\* and only if an episode id is extracted from it and at least one video of the
\* run has the same integer (season, episode) pair; the video it is matched to
\* is the one phase 1 recorded for that key, whatever the zero-padding or the
\* naming format of the two filenames.
C3_MatchedIffSameKey ==
    \A s \in DOMAIN run.targets :
        /\ (run.targets[s] # None) <=> (ids[s] # NoInfo /\ VideosWithKey(ids[s]) # {})
        /\ (run.targets[s] # None) =>
               /\ ids[s] \in DOMAIN run.video_episodes
               /\ run.targets[s] = run.temp_video_dict[run.video_episodes[ids[s]]]

\* 'A.S1E5.srt' was matched to 'b.1x05.MKV', 'c.S1E6.ass' has an episode id
\* that no video of the run carries, and 'x.srt' has none
C3_Witness ==
    /\ run.pc = "phase2" /\ run.queue = <<>>
    /\ DOMAIN run.targets = {F_s1, F_s4, F_s5}
    /\ run.targets[F_s1] = F_v2
    /\ run.targets[F_s4] = None /\ ids[F_s4] # NoInfo
    /\ run.targets[F_s5] = None /\ ids[F_s5] = NoInfo

\* C4: after build_episode_context, for every (season, episode) key carried by
\* at least one video, the key has its canonical identifier, the video recorded
\* for that identifier is the first video with the key in sorted filename
\* order (a later one never replaces it), and every subtitle with the key is
\* matched to that first video.
C4_CanonicalFirstWins ==
    Phase1Done =>
        \A k \in KeysOfVideos :
            /\ k \in DOMAIN run.video_episodes
            /\ run.video_episodes[k] = normalize_episode_number(k[1], k[2])
            /\ run.video_episodes[k] \in DOMAIN run.temp_video_dict
            /\ run.temp_video_dict[run.video_episodes[k]] = FirstWithKey(k)
            /\ \A s \in DOMAIN run.targets : ids[s] = k => run.targets[s] = FirstWithKey(k)

\* two videos carry (1, 5), the directory listed the later one first, and two
\* subtitles with that key were matched to the first in sorted order
C4_Witness ==
    /\ run.pc = "phase2" /\ run.queue = <<>>
    /\ run.video_files = <<F_v2, F_v1>>
    /\ DOMAIN run.targets = {F_s1, F_s2}
    /\ run.targets[F_s1] = F_v1 /\ run.targets[F_s2] = F_v1

\* C5: process_subtitles never renames a subtitle onto a name that exists in
\* the directory at the moment of the rename, the subtitles matched to the
\* same video get pairwise distinct new names, and no file of the directory
\* is lost by a rename.
C5_NoOverwrite ==
    cfg.tool = "rename" =>
        /\ run.pc # "raised"
        /\ \A i \in DOMAIN run.renames : ~run.renames[i].existed
        /\ \A i, j \in DOMAIN run.renames :
               (i # j /\ run.renames[i].target_video = run.renames[j].target_video)
                   => run.renames[i].new_name # run.renames[j].new_name
        /\ {dir[n] : n \in DOMAIN dir} = {<<f>> : f \in DOMAIN ids}
        /\ Cardinality(DOMAIN dir) = Cardinality(DOMAIN ids)

\* three subtitles were matched to 'a.S01E05.mkv'; for the first both the
\* standard name and the name with the subtitle's own base existed, so the
\* counter was used
C5_Witness ==
    /\ cfg.tool = "rename" /\ cfg.language_suffix = <<>>
    /\ run.pc = "phase2" /\ run.queue = <<>>
    /\ Len(run.renames) = 3
    /\ \A i \in 1..3 : run.renames[i].target_video = F_v1
    /\ run.renames[1].subtitle = F_s1
    /\ run.renames[1].new_name =
           <<"a",".","S","0","1","E","0","5",".","A",".","S","1","E","5","_","1",".","s","r","t">>


Processed == [i \in DOMAIN run.log |-> run.log[i].subtitle]
OutcomesOf(s) == {run.log[i].outcome : i \in {j \in DOMAIN run.log : run.log[j].subtitle = s}}
Finished == run.pc = "phase2" /\ run.queue = <<>>

\* C15: every subtitle processed in phase 2 gets exactly one outcome: matched,
\* no episode detected exactly when no episode id could be extracted from it,
\* no matching video exactly when an id was extracted and no video of the run
\* carries it. An unmatched subtitle never stops the run: the subtitles are
\* processed one after the other in sorted order and at the end the result
\* mapping (rename_mapping, results) has one entry per subtitle.
C15_OneOutcomePerSubtitle ==
    Phase1Done =>
        /\ run.pc # "raised"
        /\ Processed \o run.queue = sorted(run.subtitle_files)
        /\ \A i \in DOMAIN run.log :
            LET s == run.log[i].subtitle IN
            /\ run.log[i].outcome \in {"matched", "no match", "no episode"}
            /\ (run.log[i].outcome = "no episode") <=> (ids[s] = NoInfo)
            /\ (run.log[i].outcome = "no match") <=>
                   (ids[s] # NoInfo /\ VideosWithKey(ids[s]) = {})
            /\ (run.log[i].outcome = "matched") <=> (run.targets[s] # None)
        /\ (run.pc = "phase2" /\ cfg.tool = "rename") =>
               /\ DOMAIN run.rename_mapping = SeqRange(Processed)
               /\ \A s \in DOMAIN run.rename_mapping :
                      (run.rename_mapping[s] = None) <=> (OutcomesOf(s) # {"matched"})
        /\ (run.pc = "phase2" /\ cfg.tool = "embed") =>
               /\ Len(run.results) = Len(run.log)
               /\ \A i \in DOMAIN run.results :
                   /\ run.results[i].subtitle = Processed[i]
                   /\ (run.results[i].status = "no_match") <=> (run.log[i].outcome # "matched")
                   /\ (run.results[i].episode = <<"N","/","A">>) <=>
                          (run.log[i].outcome = "no episode")

\* a subtitle without a matching video was followed by a subtitle that was
\* matched and by one without an episode id
C15_Witness ==
    /\ Finished
    /\ Processed = <<F_s1, F_s4, F_s5>>
    /\ run.log[1].outcome = "no match"
    /\ run.log[2].outcome = "matched" /\ run.targets[F_s4] = F_v3
    /\ run.log[3].outcome = "no episode"

EpisodeMatchingSucceeded == \E s \in DOMAIN run.targets : run.targets[s] # None

\* C16: the movie-mode fallback is never attempted in a run in which
\* episode-based matching succeeded for at least one subtitle, in the renamer
\* and in the embedder, whatever the outcome of the rename or embed that
\* followed the match.
C16_NoMovieModeAfterEpisodeMatch ==
    run.movie_attempted => ~EpisodeMatchingSucceeded

\* what holds: the renamer never tries movie mode after an episode match; the
\* embedder tries it only when no embedding succeeded
C16_NoMovieModeAfterSuccess ==
    run.movie_attempted =>
        IF cfg.tool = "rename" THEN ~EpisodeMatchingSucceeded /\ run.renames = <<>>
        ELSE \A i \in DOMAIN run.log :
                 run.log[i].outcome = "matched" => run.failed_count >= 1

\* the embedder matched 'a.S01E05.srt' to 'a.S01E05.mkv' by episode, the
\* embedding failed, and movie mode was then tried on the same two files
C16_Witness ==
    /\ cfg.tool = "embed" /\ run.pc = "done" /\ run.movie_attempted
    /\ run.video_files = <<F_v1>> /\ run.subtitle_files = <<F_s2>>
    /\ run.targets[F_s2] = F_v1
    /\ run.failed_count = 2 /\ run.embedded_count = 0

\* what a run gives, written on the sets of names alone: the names in
\* lexicographic order, the episode table, the target of a subtitle
RankIn(S, f) == Cardinality({g \in S : StrLess(g, f)}) + 1
InOrder(S) == [i \in 1..Cardinality(S) |-> CHOOSE f \in S : RankIn(S, f) = i]
ExpectedEpisodes == [k \in KeysOfVideos |-> normalize_episode_number(k[1], k[2])]
ExpectedVideos ==
    [e \in {normalize_episode_number(k[1], k[2]) : k \in KeysOfVideos} |->
        FirstWithKey(CHOOSE k \in KeysOfVideos : normalize_episode_number(k[1], k[2]) = e)]
ExpectedTarget(s) ==
    IF ids[s] # NoInfo /\ VideosWithKey(ids[s]) # {} THEN FirstWithKey(ids[s]) ELSE None
\* the directory before the run: every file under the name it is listed with
InitialDir == [f \in {dir[n][1] : n \in DOMAIN dir} |-> <<f>>]
RECURSIVE ExpectedRenames(_, _)
ExpectedRename(d, s, new_name, rest) ==
    <<<<s, new_name>>>> \o ExpectedRenames(Put(Without(d, s), new_name, d[s]), rest)
\* the renames of the subtitles subs, taken in the order given, in directory d
ExpectedRenames(d, subs) ==
    IF subs = <<>> THEN <<>>
    ELSE IF ExpectedTarget(Head(subs)) = None THEN ExpectedRenames(d, Tail(subs))
    ELSE IF ~Exists(d, Head(subs)) THEN <<>>
    ELSE ExpectedRename(d, Head(subs),
                        generate_unique_name(splitext(ExpectedTarget(Head(subs)))[1],
                                             splitext(Head(subs))[2], Head(subs), d,
                                             cfg.language_suffix),
                        Tail(subs))
SameNames(expected) ==
    /\ Len(run.renames) <= Len(expected)
    /\ \A i \in DOMAIN run.renames :
           <<run.renames[i].subtitle, run.renames[i].new_name>> = expected[i]
    /\ run.queue = <<>> => Len(run.renames) = Len(expected)

\* C20: what a run produces depends on the sets of video and subtitle names
\* and not on the order in which the directory listing gave them: the episode
\* table of phase 1, the video each subtitle is matched to, the order in which
\* the subtitles are taken and the new names of the renamed subtitles are
\* those computed from the two sets.
C20_IndependentOfListingOrder ==
    Phase1Done =>
        /\ run.video_episodes = ExpectedEpisodes
        /\ run.temp_video_dict = ExpectedVideos
        /\ \A s \in DOMAIN run.targets : run.targets[s] = ExpectedTarget(s)
        /\ run.pc = "phase2" => Processed \o run.queue = InOrder(SeqRange(run.subtitle_files))
        /\ cfg.tool = "rename" =>
               SameNames(ExpectedRenames(InitialDir, InOrder(SeqRange(run.subtitle_files))))

\* both lists were given out of lexicographic order, two videos carry the key
\* (1, 5), and the subtitle took the name of the lexicographically first video
C20_Witness ==
    /\ cfg = [tool |-> "rename", language_suffix |-> <<>>] /\ Finished
    /\ run.video_files = <<F_v2, F_v1>> /\ run.subtitle_files = <<F_s4, F_s1>>
    /\ run.targets = (F_s1 :> F_v1) @@ (F_s4 :> None)
    /\ Len(run.renames) = 1 /\ run.renames[1].new_name = F_s2

\* before phase 1 ends nothing has been built and no subtitle has been looked
\* up; from then on the table has been built once and holds every video key
TableInv ==
    /\ run.pc \in {"start", "listed", "returned"} =>
           /\ run.builds = 0
           /\ run.video_episodes = EmptyDict /\ run.temp_video_dict = EmptyDict
           /\ run.log = <<>> /\ run.targets = EmptyDict
           /\ lru = EmptyCache
    /\ Phase1Done =>
           /\ run.builds = 1
           /\ DOMAIN run.video_episodes = KeysOfVideos
           /\ DOMAIN run.temp_video_dict = {run.video_episodes[k] : k \in KeysOfVideos}
\* a step that builds or changes the table is the step from the listing to
\* phase 2
TableStep ==
    (\/ run.video_episodes' # run.video_episodes
     \/ run.temp_video_dict' # run.temp_video_dict
     \/ run.builds' # run.builds)
        => run.pc = "listed" /\ run.pc' = "phase2"

\* C22: the episode table (video_episodes and temp_video_dict) is built once
\* per run, completely, before the first subtitle lookup, and no later step
\* (subtitle processing, renaming, embedding, movie-mode fallback) adds,
\* removes or changes an entry of it.
C22_TableBuiltOnceBeforeLookups == []TableInv /\ [][TableStep]_vars

\* a renaming run ended with movie mode after two subtitles were looked up
\* against a table of one entry built once
C22_Witness ==
    /\ cfg.tool = "rename" /\ run.pc = "done" /\ run.builds = 1
    /\ Len(run.log) >= 2 /\ run.renamed_count >= 1
    /\ Cardinality(DOMAIN run.video_episodes) = 1

\* the filenames a run looks up: its videos and its subtitles
PassNames == SeqRange(run.video_files) \cup SeqRange(run.subtitle_files)

\* C23: the cache never holds more than maxsize entries, and within one run
\* over a directory no entry stored during the run is evicted, so that each
\* filename of the run is computed at most once.
C23_NoEvictionWithinPass ==
    /\ Len(lru.entries) <= maxsize
    /\ lru.misses <= Cardinality(PassNames)

\* what holds of the cache during a run: at most maxsize entries, one per
\* filename; each filename is computed at most once when the run has no more
\* than maxsize filenames, and only then
C23_NoEvictionWhenPassFits ==
    /\ Len(lru.entries) <= maxsize
    /\ \A i, j \in DOMAIN lru.entries : lru.entries[i].key = lru.entries[j].key => i = j
    /\ CacheKeys(lru) \subseteq PassNames
    /\ Cardinality(PassNames) <= maxsize => lru.misses <= Cardinality(PassNames)

\* a renaming run over one video and two subtitles, with room for two
\* entries, computed four identifiers: the video's entry was evicted by the
\* subtitles' and computed again by the movie-mode step
C23_Witness ==
    /\ cfg.tool = "rename" /\ run.pc = "done"
    /\ Cardinality(PassNames) = maxsize + 1
    /\ Len(run.video_files) = 1
    /\ lru.misses > Cardinality(PassNames)
\* the step is an embed_subtitle call, on two files present in the working
\* directory, that returned failure; the call's pair is the last entry of results
FailedCall == run'.results[Len(run'.results)]
EmbedFailed ==
    /\ cfg.tool = "embed" /\ run'.failed_count = run.failed_count + 1
    /\ Exists(dir, FailedCall.video) /\ Exists(dir, FailedCall.subtitle)
\* f is at its path in the working directory with the content it had
Untouched(f) == Exists(dir', f) /\ dir'[f] = dir[f]
\* f was moved to backups/ with the content it had
MovedToBackups(f) ==
    ~Exists(dir', f) /\ ~Exists(backups.files, f)
        /\ Exists(backups'.files, f) /\ backups'.files[f] = dir[f]

\* C25: whenever embed_subtitle returns failure (mkvmerge exit code, timeout
\* or any exception, also one raised in the backup steps after a successful
\* merge), the original video and the original subtitle are still at their
\* paths in the working directory, unchanged, and the temporary .embedded.mkv
\* file is removed.
C25_FailedEmbedLeavesOriginals ==
    [][EmbedFailed =>
          /\ Untouched(FailedCall.video) /\ Untouched(FailedCall.subtitle)
          /\ ~Exists(dir', EmbeddedName(FailedCall.video))]_vars

\* what a failed call guarantees: the temporary file is removed; the video is
\* untouched or was moved to backups/ by this call; the subtitle is untouched,
\* or gone from the working directory with a file of its name in backups/;
\* nothing else in the working directory changes
C25_FailedEmbedKeepsOrBacksUp ==
    [][EmbedFailed =>
          /\ ~Exists(dir', EmbeddedName(FailedCall.video))
          /\ Untouched(FailedCall.video) \/ MovedToBackups(FailedCall.video)
          /\ \/ Untouched(FailedCall.subtitle)
             \/ ~Exists(dir', FailedCall.subtitle) /\ Exists(backups'.files, FailedCall.subtitle)
          /\ \A f \in DOMAIN dir \ {FailedCall.video, FailedCall.subtitle} : Untouched(f)
          /\ DOMAIN dir' \subseteq DOMAIN dir]_vars

\* the last embed_subtitle call failed after its merge: the video is in
\* backups/ and the working directory holds neither it nor the temporary file
C25_Witness ==
    /\ cfg.tool = "embed" /\ run.results # <<>>
    /\ run.results[Len(run.results)].status = "failed"
    /\ run.results[Len(run.results)].video = F_v1
    /\ run.failed_count = 1 /\ run.embedded_count = 0
    /\ ~Exists(dir, F_v1) /\ ~Exists(dir, EmbeddedName(F_v1))
    /\ Exists(backups.files, F_v1)
\* C26: main() of the embedder completes with an exit code in 0..3 for every
\* directory content, also when there is no MKV video or no subtitle: 0 when
\* no embed failed, 2 when at least one failed and at least one succeeded,
\* 3 when at least one failed and none succeeded.
C26_ExitCodeForEveryDirectory ==
    (cfg.tool = "embed" /\ run.main.pc # "running") =>
        /\ run.main.pc = "returned"
        /\ run.main.exit_code \in {<<0>>, <<1>>, <<2>>, <<3>>}
        /\ run.failed_count = 0 => run.main.exit_code = <<0>>
        /\ (run.failed_count > 0 /\ run.embedded_count > 0) => run.main.exit_code = <<2>>
        /\ (run.failed_count > 0 /\ run.embedded_count = 0) => run.main.exit_code = <<3>>

\* what main() does: it raises TypeError exactly when process_embedding
\* returned early; otherwise it returns 0, 2 or 3 by the statuses left in
\* results, where the movie-mode entry has replaced the subtitle's first one
C26_ExitCodeByResultsUnlessEarlyReturn ==
    (cfg.tool = "embed" /\ run.main.pc # "running") =>
        /\ run.main.pc = "TypeError" <=> (run.video_files = <<>> \/ run.subtitle_files = <<>>)
        /\ run.main.pc = "TypeError" <=> run.pc = "returned"
        /\ run.main.pc = "returned" =>
              /\ run.main.exit_code \in {<<0>>, <<2>>, <<3>>}
              /\ run.main.exit_code = <<0>> <=> StatusCount(run.results, "failed") = 0
              /\ run.main.exit_code = <<2>> <=>
                     /\ StatusCount(run.results, "failed") > 0
                     /\ StatusCount(run.results, "success") > 0
              /\ (~run.movie_attempted \/ run.failed_count = 0) =>
                     /\ StatusCount(run.results, "failed") = run.failed_count
                     /\ StatusCount(run.results, "success") = run.embedded_count

\* the directory holds subtitles and no MKV video: process_embedding returned
\* early and main() raised instead of returning an exit code
C26_Witness ==
    /\ cfg.tool = "embed" /\ run.pc = "returned" /\ run.main.pc = "TypeError"
    /\ run.video_files = <<>> /\ run.subtitle_files # <<>>
    /\ DOMAIN dir = {F_v3, F_s4}
\* the entries of results for subtitle s
ResultsOf(s) == SelectSeq(run.results, LAMBDA r : r.subtitle = s)
\* the embed_subtitle calls made with subtitle s: one in phase 2 when s was
\* matched to a video, one in movie mode when its entry carries 'Movie'
EmbedCalls(s) ==
    (IF s \in DOMAIN run.targets /\ run.targets[s] # None THEN 1 ELSE 0)
    + (IF \E i \in DOMAIN run.results :
              run.results[i].subtitle = s /\ run.results[i].episode = <<"M","o","v","i","e">>
       THEN 1 ELSE 0)

\* C27: in process_embedding, after every step including the movie-mode
\* fallback, embedded_count + failed_count is at most the number of subtitle
\* files, each subtitle is handed to embed_subtitle at most once, and results
\* holds exactly one entry per subtitle.
C27_OneEmbedPerSubtitle ==
    cfg.tool = "embed" =>
        /\ run.embedded_count + run.failed_count <= Len(run.subtitle_files)
        /\ \A s \in SeqRange(run.subtitle_files) : EmbedCalls(s) <= 1
        /\ \A s \in DOMAIN run.targets : Len(ResultsOf(s)) = 1
        /\ \A i \in DOMAIN run.results : run.results[i].subtitle \in DOMAIN run.targets

\* what process_embedding keeps: one entry of results per processed subtitle,
\* the two counters count the embed_subtitle calls, and a subtitle is embedded
\* twice only by movie mode after the failed embed of the directory's only pair
C27_OneEntryPerSubtitle ==
    cfg.tool = "embed" =>
        /\ \A s \in DOMAIN run.targets : Len(ResultsOf(s)) = 1
        /\ \A i \in DOMAIN run.results : run.results[i].subtitle \in DOMAIN run.targets
        /\ run.pc = "done" => DOMAIN run.targets = SeqRange(run.subtitle_files)
        /\ \A s \in SeqRange(run.subtitle_files) :
               /\ EmbedCalls(s) <= 2
               /\ EmbedCalls(s) = 2 =>
                      /\ run.subtitle_files = <<s>> /\ Len(run.video_files) = 1
                      /\ run.movie_attempted /\ run.failed_count >= 1
        /\ run.embedded_count + run.failed_count <= Len(run.subtitle_files) + 1
        /\ run.embedded_count <= Len(run.subtitle_files)

\* one subtitle, matched by its episode id; its embed failed, movie mode
\* embedded the same pair again and succeeded: two calls counted for one
\* subtitle, one entry in results
C27_Witness ==
    /\ cfg.tool = "embed" /\ run.pc = "done"
    /\ run.subtitle_files = <<F_s2>> /\ run.video_files = <<F_v1>>
    /\ run.targets[F_s2] = F_v1 /\ EmbedCalls(F_s2) = 2
    /\ run.failed_count = 1 /\ run.embedded_count = 1
    /\ Len(run.results) = 1 /\ run.results[1].status = "success"
\* the names under which the file that was listed as f is in the directory
NamesOf(f) == {n \in DOMAIN dir : dir[n] = <<f>>}
\* the name recorded for subtitle s: its new name in rename_mapping, else its own
RecordedName(s) ==
    IF Exists(run.rename_mapping, s) /\ run.rename_mapping[s] # None
    THEN run.rename_mapping[s] ELSE s
OriginalVideos == {f \in DOMAIN ids : HasExtension(f, video_extensions)}
OriginalSubtitles == {f \in DOMAIN ids : HasExtension(f, subtitle_extensions)}

\* C28: a renaming run conserves files: after every step of process_subtitles
\* and after the movie-mode rename, every original subtitle is in the
\* directory under exactly one name (its own when it was not matched, else the
\* name recorded for it in rename_mapping), the number of files is unchanged,
\* and no video is renamed, removed or modified.
C28_RenamingConservesFiles ==
    cfg.tool = "rename" =>
        /\ \A s \in OriginalSubtitles : NamesOf(s) = {RecordedName(s)}
        /\ \A s \in OriginalSubtitles :
               (s \in DOMAIN run.targets /\ run.targets[s] = None /\ ~run.movie_mode_detected)
                   => RecordedName(s) = s
        /\ Cardinality(DOMAIN dir) = Cardinality(DOMAIN ids)
        /\ \A v \in OriginalVideos : NamesOf(v) = {v}
        /\ \A n \in DOMAIN dir : \E f \in DOMAIN ids : dir[n] = <<f>>

\* a run renamed two subtitles of three, both to names of the same video, and
\* left the unmatched subtitle and the video as they were
C28_Witness ==
    /\ cfg.tool = "rename" /\ run.pc = "done"
    /\ Len(run.renames) = 2 /\ Cardinality(OriginalSubtitles) = 3
    /\ run.renames[1].target_video = run.renames[2].target_video
    /\ \A i \in {1, 2} : RecordedName(run.renames[i].subtitle) # run.renames[i].subtitle
    /\ \E s \in OriginalSubtitles : run.targets[s] = None /\ NamesOf(s) = {s}
    /\ OriginalVideos = {F_v1} /\ NamesOf(F_v1) = {F_v1}
\* a run renamed a subtitle in movie mode
C28_WitnessMovie ==
    /\ cfg.tool = "rename" /\ run.pc = "done" /\ run.movie_mode_detected
    /\ \E s \in OriginalSubtitles : RecordedName(s) # s /\ NamesOf(s) = {RecordedName(s)}
\* the target name of subtitle s for video v: the video's base name, the
\* language suffix when there is one, and the subtitle's extension
TargetName(s, v) ==
    build_subtitle_filename(splitext(v)[1], splitext(s)[2], cfg.language_suffix)
\* s was matched to a video and already carries the target name for it
AlreadyNamed(s) ==
    s \in DOMAIN run.targets /\ run.targets[s] # None /\ s = TargetName(s, run.targets[s])

\* C29: renaming is idempotent: a matched subtitle whose name already equals
\* the target name for its video keeps that name, so a second run of the
\* renamer on its own output renames nothing.
C29_TargetNameKept ==
    cfg.tool = "rename" =>
        \A s \in OriginalSubtitles : AlreadyNamed(s) => NamesOf(s) = {s}

\* what process_subtitles does: every matched subtitle is renamed, to a name
\* other than its own; one that already carries the target name gets a name
\* that repeats its own base name after the video's
C29_MatchedAlwaysRenamed ==
    cfg.tool = "rename" =>
        /\ \A i \in DOMAIN run.renames : run.renames[i].new_name # run.renames[i].subtitle
        /\ \A s \in DOMAIN run.targets :
               run.targets[s] # None => (RecordedName(s) # s /\ ~Exists(dir, s))
        /\ \A s \in OriginalSubtitles :
               AlreadyNamed(s) => RecordedName(s) # TargetName(s, run.targets[s])

\* 'a.S01E05.srt' next to 'a.S01E05.mkv', no language suffix: the subtitle
\* carried the target name and the run renamed it
C29_Witness ==
    /\ cfg.tool = "rename" /\ cfg.language_suffix = <<>> /\ run.pc = "done"
    /\ DOMAIN ids = {F_v1, F_s2}
    /\ AlreadyNamed(F_s2) /\ run.targets[F_s2] = F_v1
    /\ RecordedName(F_s2) =
           <<"a",".","S","0","1","E","0","5",".","a",".","S","0","1","E","0","5",".","s","r","t">>
    /\ ~Exists(dir, F_s2)
(***************************************************************************)
(* The same runs on directories of final-season names                      *)
(***************************************************************************)
InitFinalSeason ==
    /\ cfg \in Configs
    /\ \E S \in FinalSeasonDirectories : dir = [f \in S |-> <<f>>]
    /\ backups \in (IF cfg.tool = "embed" THEN {NoBackups, OldBackups} ELSE {NoBackups})
    /\ ids = [f \in DOMAIN dir |-> extract_episode_info(f)]
    /\ run = NotStarted
    /\ CacheIdle /\ MatcherIdle /\ ResolverIdle /\ IdentifierIdle
SpecFinalSeason == InitFinalSeason /\ [][NextPairing]_vars

\* s contains the final-season phrase and its season defaulted to 1
FinalSeasonSubtitle(s) ==
    ids[s] # NoInfo /\ ids[s][1] = 1 /\ detect_final_season_keyword(s)
\* the videos of the run with the episode number of s and an explicit season
\* other than 1
FinalSeasonVideos(s) ==
    {v \in SeqRange(run.video_files) :
        ids[v] # NoInfo /\ ids[v][2] = ids[s][2] /\ ids[v][1] # 1}

\* C24: in phase 2 of the renaming flow and of the embedding flow, a subtitle
\* that contains the final-season phrase and whose season defaulted to 1 is
\* matched to the video with the same episode number and an explicit season
\* other than 1 ('Show FINAL SEASON - 01.ass' to 'Show.S08E01.mkv').
C24_FinalSeasonResolvedInPhase2 ==
    \A s \in DOMAIN run.targets :
        (FinalSeasonSubtitle(s) /\ FinalSeasonVideos(s) # {}) =>
            run.targets[s] \in FinalSeasonVideos(s)

\* what phase 2 does with such a subtitle: it is looked up under its own
\* (season 1) key, whatever the resolver returns for the pair
C24_FinalSeasonMatchedBySeasonOneKey ==
    \A s \in DOMAIN run.targets :
        FinalSeasonSubtitle(s) => run.targets[s] = ExpectedTarget(s)

\* both files of the example were listed, the resolver pairs them, and each
\* flow went through phase 2 leaving the subtitle without a video
C24_Witness ==
    /\ run.pc = "phase2" /\ run.queue = <<>>
    /\ run.video_files = <<R01, R02>> /\ run.subtitle_files = <<R06>>
    /\ match_subtitle_to_video(R06, R01)[1] = <<"S","0","8","E","0","1">>
    /\ FinalSeasonSubtitle(R06) /\ R01 \in FinalSeasonVideos(R06)
    /\ run.targets[R06] = None
C24_WitnessEmbed == C24_Witness /\ cfg.tool = "embed"
C24_WitnessRename == C24_Witness /\ cfg.tool = "rename" /\ Exists(dir, R06)
(***************************************************************************)
(* The identifier functions called on their own: normalize_episode_number  *)
(* on two integer pairs, extract_season_episode_numbers on each result and *)
(* on an arbitrary text                                                    *)
(***************************************************************************)
Numbers == {0, 1, 5, 10, 15, 100, 1015}
\* texts around and in place of a canonical identifier, and None
Prefixes == {<<>>, <<"x">>, <<" ">>}
Cores ==
    {<<>>, <<"S","0","1","E","0","5">>, <<"S","0","0","E","0","0">>, <<"s","1","e","5">>,
     <<"S","0","1","E","1","0","1","5">>, <<"S","1">>, <<"E","5">>, <<"S","E">>, <<"S","1","E">>,
     <<"S","0","1","-","E","0","5">>, <<"1","x","0","5">>}
Suffixes == {<<>>, <<"x">>, <<" ">>, <<".","m","k","v">>, <<"7">>}
Texts == {p \o c \o x : p \in Prefixes, c \in Cores, x \in Suffixes} \cup {None}
InitIdentifier ==
    /\ \/ \E s1 \in Numbers, e1 \in Numbers, s2 \in Numbers, e2 \in Numbers :
            call = [NoCalls EXCEPT !.given = "pairs", !.pairs = <<<<s1, e1>>, <<s2, e2>>>>]
       \/ \E t \in Texts : call = [NoCalls EXCEPT !.given = "text", !.text = t]
    /\ MatcherIdle /\ ResolverIdle /\ CacheIdle /\ PairingIdle

\* the call normalize_episode_number(season, episode) on pair i
NormalizeEpisodeNumber ==
    /\ call.given = "pairs"
    /\ \E i \in {1, 2} :
        /\ call.normalized[i] = NotYet
        /\ call' = [call EXCEPT !.normalized[i] =
                        normalize_episode_number(call.pairs[i][1], call.pairs[i][2])]
    /\ UNCHANGED <<matcherVars, resolverVars, cacheVars, pairingVars>>

\* the call extract_season_episode_numbers(episode_string) on the identifier of pair i
ExtractSeasonEpisodeNumbers ==
    /\ \E i \in {1, 2} :
        /\ call.normalized[i] # NotYet /\ call.parsed[i] = NotYet
        /\ call' = [call EXCEPT !.parsed[i] = extract_season_episode_numbers(call.normalized[i])]
    /\ UNCHANGED <<matcherVars, resolverVars, cacheVars, pairingVars>>

\* the call extract_season_episode_numbers(text)
ExtractFromText ==
    /\ call.given = "text" /\ call.text_parsed = NotYet
    /\ call' = [call EXCEPT !.text_parsed = extract_season_episode_numbers(call.text)]
    /\ UNCHANGED <<matcherVars, resolverVars, cacheVars, pairingVars>>

NextIdentifier == NormalizeEpisodeNumber \/ ExtractSeasonEpisodeNumbers \/ ExtractFromText
SpecIdentifier == InitIdentifier /\ [][NextIdentifier]_vars

\* the decimal text of n, with a zero in front when it has one digit
ZeroPadded(n) == IF Len(IntStr(n)) < 2 THEN <<"0">> \o IntStr(n) ELSE IntStr(n)

WhollyCanonical(t) ==
    /\ t # None
    /\ \E k \in 3..(Len(t) - 1) :
        /\ Lower(t)[1] = "s" /\ Lower(t)[k] = "e"
        /\ \A j \in 2..(k - 1) : t[j] \in Digit
        /\ \A j \in (k + 1)..Len(t) : t[j] \in Digit
\* t begins with S<digits>E<digits>
CanonicalAtStart(t) ==
    t # None /\ \E n \in 1..Len(t) : WhollyCanonical(SubSeq(t, 1, n))

\* C13: extract_season_episode_numbers returns ("", "") for every string that
\* is not wholly of the form S<digits>E<digits> (empty, a component missing,
\* or extra characters around the identifier), and that result differs from a
\* parsed season or episode of 0: 'S00E00' parses to ('00', '00').
C13_MalformedIsNotParsed ==
    call.text_parsed # NotYet =>
        /\ ~WhollyCanonical(call.text) => call.text_parsed = NotParsed
        /\ call.text = <<"S","0","0","E","0","0">> =>
               /\ call.text_parsed = <<<<"0","0">>, <<"0","0">>>>
               /\ call.text_parsed # NotParsed

\* what the code does: the result is ("", "") exactly when the text does not
\* begin with S<digits>E<digits>; characters after the identifier are ignored
C13_NotParsedIffNoCanonicalStart ==
    call.text_parsed # NotYet =>
        /\ (call.text_parsed = NotParsed) <=> ~CanonicalAtStart(call.text)
        /\ call.text = <<"S","0","0","E","0","0">> =>
               call.text_parsed = <<<<"0","0">>, <<"0","0">>>>

\* 'S01E05.mkv', with characters after the identifier, was parsed
C13_Witness ==
    /\ call.text = <<"S","0","1","E","0","5",".","m","k","v">>
    /\ call.text_parsed = <<<<"0","1">>, <<"0","5">>>>

BothNormalized == call.normalized[1] # NotYet /\ call.normalized[2] # NotYet

\* C14: for non-negative (s1, e1) and (s2, e2), normalize_episode_number gives
\* equal identifiers if and only if s1 = s2 and e1 = e2: numbers that differ
\* only in zero padding denote the same pair and get the same identifier, and
\* distinct pairs never get equal identifiers.
C14_EqualIffSamePair ==
    BothNormalized =>
        ((call.normalized[1] = call.normalized[2]) <=> (call.pairs[1] = call.pairs[2]))

\* (1, 15) and (1, 1015), whose last two digits agree, got different identifiers
C14_Witness ==
    /\ call.pairs = <<<<1, 15>>, <<1, 1015>>>>
    /\ BothNormalized
    /\ call.normalized[1] = <<"S","0","1","E","1","5">>
    /\ call.normalized[2] = <<"S","0","1","E","1","0","1","5">>

(***************************************************************************)
(* The movie-mode comparison called on its own                             *)
(***************************************************************************)
MovieVideos ==
    {<<"A","l","p","h","a",".","2","0","1","9",".","m","k","v">>,
     <<"A","l","p","h","a","2","0","1","9",".","m","k","v">>,
     <<"A","l","p","h","a",".","1","0","8","0","p",".","m","k","v">>,
     <<"T","h","e",".","A","l","p","h","a",".","m","k","v">>,
     <<"1","0","8","0","p",".","m","k","v">>,
     <<"T","h","e",".","B","e","t","a",".","2","0","1","9",".","m","k","v">>,
     <<"A","l","p","h","a","-","B","e","t","a","_","G","a","m","m","a",".","D","e","l","t","a",".","m","k","v">>,
     <<"2","0","1","9",".","m","k","v">>}
MovieSubtitles ==
    {<<"A","l","p","h","a",".","2","0","1","9",".","s","r","t">>,
     <<"B","e","t","a","2","0","1","9",".","s","r","t">>,
     <<"B","e","t","a",".","2","0","1","9",".","s","r","t">>,
     <<"B","e","t","a",".","2","0","2","0",".","s","r","t">>,
     <<"a","l","p","h","a",".","s","r","t">>,
     <<"T","h","e",".","G","a","m","m","a",".","s","r","t">>,
     <<"7","2","0","p",".","a","r",".","s","r","t">>,
     <<"D","e","l","t","a",".","O","m","e","g","a",".","S","i","g","m","a",".","s","r","t">>,
     <<"A","l","p","h","a","2","0","1","9",".","s","r","t">>}
InitMovie ==
    /\ \E tool \in {"rename", "embed"}, video \in MovieVideos, subtitle \in MovieSubtitles :
           call = [NoCalls EXCEPT !.given = "movie",
                                  !.movie = [tool |-> tool, video |-> video, subtitle |-> subtitle]]
    /\ MatcherIdle /\ ResolverIdle /\ CacheIdle /\ PairingIdle

\* the locals of the comparison and what it returns
Compared(video_year, subtitle_year, video_words, subtitle_words) ==
    call' = [call EXCEPT !.movie_match =
                [video_year |-> video_year, subtitle_year |-> subtitle_year,
                 video_words |-> video_words, subtitle_words |-> subtitle_words,
                 ret |-> MovieDecide(call.movie.video, call.movie.subtitle, video_year,
                                     subtitle_year, video_words, subtitle_words, call.movie.tool)]]

\* the call find_movie_subtitle_match([video], [subtitle]) of the renamer, or
\* match_movie_files([video], [subtitle]) of the embedder
MatchMovieFiles ==
    /\ call.given = "movie" /\ call.movie_match = NotYet
    /\ Compared(YearOf(call.movie.video), YearOf(call.movie.subtitle),
                WordsOf(call.movie.video, call.movie.tool),
                WordsOf(call.movie.subtitle, call.movie.tool))
    /\ UNCHANGED <<matcherVars, resolverVars, cacheVars, pairingVars>>

NextMovie == MatchMovieFiles
SpecMovie == InitMovie /\ [][NextMovie]_vars

SharedYear ==
    /\ call.movie_match.video_year # None
    /\ call.movie_match.video_year = call.movie_match.subtitle_year
CommonWords == call.movie_match.video_words \cap call.movie_match.subtitle_words
\* shared words / smaller word-set size >= 0.3
OverlapRatioAtLeast30 ==
    10 * Cardinality(CommonWords)
        >= 3 * Min(Cardinality(call.movie_match.video_words),
                   Cardinality(call.movie_match.subtitle_words))
ClaimedMatch ==
    \/ SharedYear /\ CommonWords # {}
    \/ /\ ~SharedYear
       /\ call.movie_match.video_words # {} /\ call.movie_match.subtitle_words # {}
       /\ (OverlapRatioAtLeast30 \/ CommonWords # {})

\* C17: the comparison of the single video and the single subtitle declares a
\* match exactly when (a) both names share a 4-digit year and have a common
\* significant word, or (b) they share no year, both have a significant word,
\* and the overlap ratio is >= 0.3 or a common word exists; a shared year with
\* no common significant word is not a match. In the renamer and the embedder.
C17_MovieMatchRule ==
    call.movie_match # NotYet =>
        /\ (call.movie_match.ret # None) <=> ClaimedMatch
        /\ (SharedYear /\ CommonWords = {}) => call.movie_match.ret = None

\* what holds: the embedder follows the rule; the renamer follows it when no
\* year is shared and declares a match whenever a year is shared
C17_RuleInEmbedderYearAloneInRenamer ==
    call.movie_match # NotYet =>
        /\ call.movie_match.ret \in {None, <<call.movie.video, call.movie.subtitle>>}
        /\ (call.movie.tool = "embed" \/ ~SharedYear) =>
               ((call.movie_match.ret # None) <=> ClaimedMatch)
        /\ (call.movie.tool = "rename" /\ SharedYear) => call.movie_match.ret # None

\* the renamer matched 'Alpha2019.mkv' with 'Beta2019.srt': the same year and
\* no common word
C17_Witness ==
    /\ call.given = "movie" /\ call.movie_match # NotYet
    /\ call.movie.tool = "rename"
    /\ call.movie.video = <<"A","l","p","h","a","2","0","1","9",".","m","k","v">>
    /\ call.movie.subtitle = <<"B","e","t","a","2","0","1","9",".","s","r","t">>
    /\ SharedYear /\ CommonWords = {}
    /\ call.movie_match.ret = <<call.movie.video, call.movie.subtitle>>

(***************************************************************************)
(* generate_unique_name run one existence test at a time                   *)
(***************************************************************************)
U_base == <<"v">>
U_ext == <<".","s","r","t">>
UniqueSubtitles == {<<"s",".","s","r","t">>, <<"s","u","b",".","s","r","t">>,
                    <<"a",":","b",".","s","r","t">>}
UniqueSuffixes == {<<>>, <<"a","r">>}
MaxNumbered == 3
\* the specific name of each subtitle and language suffix drawn
specific_names ==
    [subtitle \in UniqueSubtitles |-> [language_suffix \in UniqueSuffixes |->
        SpecificName(U_base, U_ext, subtitle, language_suffix)]]
\* the names the call can try when up to MaxNumbered numbered names are taken
Candidates(subtitle, language_suffix) ==
    {build_subtitle_filename(U_base, U_ext, language_suffix),
     specific_names[subtitle][language_suffix]}
    \cup {NumberedName(specific_names[subtitle][language_suffix], n) : n \in 1..MaxNumbered}
InitUnique ==
    /\ \E subtitle \in UniqueSubtitles, language_suffix \in UniqueSuffixes :
        \E S \in SUBSET (Candidates(subtitle, language_suffix) \cup {F_v1}) :
            call = [NoCalls EXCEPT !.given = "unique", !.unique =
                      [pc |-> "called", subtitle |-> subtitle,
                       language_suffix |-> language_suffix, d |-> [f \in S |-> <<f>>],
                       specific_new_name |-> <<>>, original_specific_name |-> <<>>,
                       counter |-> 0, tried |-> <<>>, ret |-> NotYet]]
    /\ MatcherIdle /\ ResolverIdle /\ CacheIdle /\ PairingIdle

\* the standard name new_name was tested: returned when free, else the loop
\* is entered with the specific name
StandardTested(u, new_name) ==
    IF ~Exists(u.d, new_name)
    THEN call' = [call EXCEPT !.unique.pc = "returned", !.unique.ret = new_name,
                              !.unique.tried = <<new_name>>]
    ELSE call' = [call EXCEPT !.unique.pc = "while", !.unique.counter = 1,
                      !.unique.tried = <<new_name>>,
                      !.unique.specific_new_name = specific_names[u.subtitle][u.language_suffix],
                      !.unique.original_specific_name = specific_names[u.subtitle][u.language_suffix]]
\* generate_unique_name up to the while loop
GenerateUniqueName ==
    /\ call.given = "unique" /\ call.unique.pc = "called"
    /\ StandardTested(call.unique,
                      build_subtitle_filename(U_base, U_ext, call.unique.language_suffix))
    /\ UNCHANGED <<matcherVars, resolverVars, cacheVars, pairingVars>>

\* one pass through the body of the while loop: the name tested exists
WhileExists ==
    /\ call.given = "unique" /\ call.unique.pc = "while"
    /\ Exists(call.unique.d, call.unique.specific_new_name)
    /\ call' = [call EXCEPT
                  !.unique.tried = Append(call.unique.tried, call.unique.specific_new_name),
                  !.unique.specific_new_name =
                      NumberedName(call.unique.original_specific_name, call.unique.counter),
                  !.unique.counter = call.unique.counter + 1]
    /\ UNCHANGED <<matcherVars, resolverVars, cacheVars, pairingVars>>

\* the name tested does not exist: the loop ends and the name is returned
WhileEnds ==
    /\ call.given = "unique" /\ call.unique.pc = "while"
    /\ ~Exists(call.unique.d, call.unique.specific_new_name)
    /\ call' = [call EXCEPT
                  !.unique.tried = Append(call.unique.tried, call.unique.specific_new_name),
                  !.unique.pc = "returned", !.unique.ret = call.unique.specific_new_name]
    /\ UNCHANGED <<matcherVars, resolverVars, cacheVars, pairingVars>>

NextUnique == GenerateUniqueName \/ WhileExists \/ WhileEnds
\* the call runs on: a step that can be taken is taken
SpecUnique == InitUnique /\ [][NextUnique]_vars /\ WF_vars(NextUnique)

\* the names tested so far, the one under test included
TestedNames ==
    IF call.unique.pc = "while"
    THEN Append(call.unique.tried, call.unique.specific_new_name) ELSE call.unique.tried
UniqueReturned == call.given = "unique" /\ call.unique.pc = "returned"
UniqueSafe ==
    call.given = "unique" =>
        /\ \A i, j \in DOMAIN TestedNames : TestedNames[i] = TestedNames[j] => i = j
        /\ \A i \in DOMAIN call.unique.tried :
               i < Len(TestedNames) => Exists(call.unique.d, call.unique.tried[i])
        /\ Len(TestedNames) <= Cardinality(DOMAIN call.unique.d) + 1
        /\ UniqueReturned =>
               /\ ~Exists(call.unique.d, call.unique.ret)
               /\ call.unique.ret = call.unique.tried[Len(call.unique.tried)]
               /\ call.unique.ret = generate_unique_name(U_base, U_ext, call.unique.subtitle,
                                         call.unique.d, call.unique.language_suffix)

\* C21: generate_unique_name terminates for every finite directory content:
\* the names it tests are pairwise distinct, each is tested for existence
\* before the next is formed, every name before the returned one exists, at
\* most (number of existing files + 1) names are tested, the call returns,
\* and it returns the first tested name that does not exist, which is the
\* value the function has for that directory content.
C21_UniqueNameTerminates == []UniqueSafe /\ <>UniqueReturned

\* the standard name, the specific name and two numbered names were taken,
\* and the third numbered name was returned after five tests
C21_Witness ==
    /\ UniqueReturned /\ Len(call.unique.tried) = 5
    /\ call.unique.subtitle = <<"a",":","b",".","s","r","t">>
    /\ call.unique.language_suffix = <<"a","r">>
    /\ call.unique.ret = <<"v",".","a","r","_","a","_","b","_","3",".","s","r","t">>
====
